---------------------------- MODULE Spec2Model ----------------------------
(***************************************************************************)
(* A model of the fiber pool of react-reconciler/src/ReactFiber.js: the    *)
(* FiberNode constructor, createWorkInProgress and resetWorkInProgress,    *)
(* driven by a reconciliation pass (begin / reconcile children / complete, *)
(* yield, cancel, commit) that threads the effect list.                    *)
(*                                                                         *)
(* The heap is a sequence of fiber records; a fiber is named by its index  *)
(* in the heap and Null (0) is the null pointer.                           *)
(***************************************************************************)
EXTENDS Integers, Sequences, FiniteSets, TLC

(***************************************************************************)
(* Bounds of the model.                                                    *)
(***************************************************************************)
NKeys == 4          \* keyed positions below the host root
MaxCommits == 2     \* commits (current / work-in-progress swaps)
MaxDisruptions == 1 \* second passes over a unit and cancelled passes, together

(***************************************************************************)
(* Program constants.                                                      *)
(***************************************************************************)
Null == 0
NoWork == 0

NoEffect == {}
Placement == {"Placement"}
Update == {"Update"}
Deletion == {"Deletion"}

NoMode == {}
StrictMode == {"StrictMode"}
BlockingMode == {"BlockingMode"}
ConcurrentMode == {"ConcurrentMode"}
ProfileMode == {"ProfileMode"}

Props == {1, 2}

\* The input a newly mounted element carries.
InitialProps == {1}

(***************************************************************************)
(* Element types, by shape: what typeof and the prototype / $$typeof       *)
(* lookups of createFiberFromTypeAndProps can see.                         *)
(***************************************************************************)
TypeShape(kind, name, isComponent, typeofTag, empty) ==
  [kind |-> kind, name |-> name, isReactComponent |-> isComponent,
   typeofTag |-> typeofTag, empty |-> empty]

NullType == TypeShape("null", "null", FALSE, "none", FALSE)
HostTag(name) == TypeShape("string", name, FALSE, "none", FALSE)
ClassType(name) == TypeShape("function", name, TRUE, "none", FALSE)

NoDependencies == << >>

(***************************************************************************)
(* FiberNode: the constructor's initial field values.                      *)
(***************************************************************************)
FiberNode(tag, pendingProps, key, mode) ==
  [tag |-> tag,
   key |-> key,
   elementType |-> NullType,
   type |-> NullType,
   stateNode |-> Null,
   return |-> Null,
   child |-> Null,
   sibling |-> Null,
   index |-> 0,
   ref |-> Null,
   pendingProps |-> pendingProps,
   memoizedProps |-> Null,
   updateQueue |-> Null,
   memoizedState |-> Null,
   dependencies |-> NoDependencies,
   mode |-> mode,
   effectTag |-> NoEffect,
   nextEffect |-> Null,
   firstEffect |-> Null,
   lastEffect |-> Null,
   expirationTime |-> NoWork,
   childExpirationTime |-> NoWork,
   alternate |-> Null]

\* An operation on the heap returns the new heap and the fiber it returns, or
\* throws and leaves the heap as it was when the error was raised.
Result(h, ret) == [h |-> h, ret |-> ret, threw |-> "none", message |-> << >>]

Throw(h, error, message) ==
  [h |-> h, ret |-> Null, threw |-> error, message |-> message]

\* A variant that links the new fiber to the fiber created before it.
createFiberLinked(h, tag, pendingProps, key, mode) ==
  Result(Append(h, [FiberNode(tag, pendingProps, key, mode) EXCEPT !.return = Len(h)]),
         Len(h) + 1)

createFiber(h, tag, pendingProps, key, mode) ==
  Result(Append(h, FiberNode(tag, pendingProps, key, mode)), Len(h) + 1)

(***************************************************************************)
(* createWorkInProgress, in its three parts: the branch that allocates the *)
(* alternate, the branch that reuses it, and the copy from current that    *)
(* follows either branch.                                                  *)
(***************************************************************************)
\* A variant of the clone that leaves the responders out of the copy.
cloneDependenciesNoResponders(d) ==
  IF d = NoDependencies
    THEN NoDependencies
    ELSE << [expirationTime |-> d[1].expirationTime,
             firstContext |-> d[1].firstContext,
             responders |-> Null] >>

cloneDependencies(d) ==
  IF d = NoDependencies
    THEN NoDependencies
    ELSE << [expirationTime |-> d[1].expirationTime,
             firstContext |-> d[1].firstContext,
             responders |-> d[1].responders] >>

\* Variants of the allocating branch that leave out one of its assignments.
cwipAllocateOneWay(h, current, pendingProps) ==
  LET c == h[current]
      made == createFiber(h, c.tag, pendingProps, c.key, c.mode)
      w == made.ret
  IN  Result([made.h EXCEPT ![w].elementType = c.elementType,
                            ![w].type = c.type,
                            ![w].stateNode = c.stateNode,
                            ![current].alternate = w], w)

cwipAllocateNoInstance(h, current, pendingProps) ==
  LET c == h[current]
      made == createFiber(h, c.tag, pendingProps, c.key, c.mode)
      w == made.ret
  IN  Result([made.h EXCEPT ![w].elementType = c.elementType,
                            ![w].type = c.type,
                            ![w].alternate = current,
                            ![current].alternate = w], w)

\* A variant of the allocating branch that copies elementType but not type.
cwipAllocateNoType(h, current, pendingProps) ==
  LET c == h[current]
      made == createFiber(h, c.tag, pendingProps, c.key, c.mode)
      w == made.ret
  IN  Result([made.h EXCEPT ![w].elementType = c.elementType,
                            ![w].stateNode = c.stateNode,
                            ![w].alternate = current,
                            ![current].alternate = w], w)

cwipAllocate(h, current, pendingProps) ==
  LET c == h[current]
      made == createFiber(h, c.tag, pendingProps, c.key, c.mode)
      w == made.ret
  IN  Result([made.h EXCEPT ![w].elementType = c.elementType,
                            ![w].type = c.type,
                            ![w].stateNode = c.stateNode,
                            ![w].alternate = current,
                            ![current].alternate = w], w)

\* A variant of the reusing branch that keeps the effect tag of the last pass.
cwipReuseKeepTag(h, current, pendingProps) ==
  LET w == h[current].alternate
  IN  Result([h EXCEPT ![w].pendingProps = pendingProps,
                       ![w].nextEffect = Null,
                       ![w].firstEffect = Null,
                       ![w].lastEffect = Null], w)

\* ... that keeps its effect list, or its link into an effect list.
cwipReuseKeepList(h, current, pendingProps) ==
  LET w == h[current].alternate
  IN  Result([h EXCEPT ![w].pendingProps = pendingProps,
                       ![w].effectTag = NoEffect,
                       ![w].nextEffect = Null], w)

cwipReuseKeepNext(h, current, pendingProps) ==
  LET w == h[current].alternate
  IN  Result([h EXCEPT ![w].pendingProps = pendingProps,
                       ![w].effectTag = NoEffect,
                       ![w].firstEffect = Null,
                       ![w].lastEffect = Null], w)

\* ... that resets the pass-scoped fields of current as well.
cwipReuseTouchCurrent(h, current, pendingProps) ==
  LET w == h[current].alternate
  IN  Result([h EXCEPT ![w].pendingProps = pendingProps,
                       ![w].effectTag = NoEffect,
                       ![w].nextEffect = Null,
                       ![w].firstEffect = Null,
                       ![w].lastEffect = Null,
                       ![current].effectTag = NoEffect,
                       ![current].nextEffect = Null,
                       ![current].firstEffect = Null,
                       ![current].lastEffect = Null], w)

\* A variant of the reusing branch that keeps lastEffect of the last pass.
cwipReuseKeepLast(h, current, pendingProps) ==
  LET w == h[current].alternate
  IN  Result([h EXCEPT ![w].pendingProps = pendingProps,
                       ![w].effectTag = NoEffect,
                       ![w].nextEffect = Null,
                       ![w].firstEffect = Null], w)

cwipReuse(h, current, pendingProps) ==
  LET w == h[current].alternate
  IN  Result([h EXCEPT ![w].pendingProps = pendingProps,
                       ![w].effectTag = NoEffect,
                       ![w].nextEffect = Null,
                       ![w].firstEffect = Null,
                       ![w].lastEffect = Null], w)

\* A variant of the copy that leaves the memoized state of the last pass.
cwipCopyKeepState(h, w, current) ==
  LET c == h[current]
  IN  [h EXCEPT ![w].childExpirationTime = c.childExpirationTime,
                ![w].expirationTime = c.expirationTime,
                ![w].child = c.child,
                ![w].memoizedProps = c.memoizedProps,
                ![w].updateQueue = c.updateQueue,
                ![w].dependencies = cloneDependencies(c.dependencies),
                ![w].sibling = c.sibling,
                ![w].index = c.index,
                ![w].ref = c.ref]

\* A variant of the copy that takes the return link from current as well.
cwipCopyWithReturn(h, w, current) ==
  LET c == h[current]
  IN  [h EXCEPT ![w].childExpirationTime = c.childExpirationTime,
                ![w].expirationTime = c.expirationTime,
                ![w].child = c.child,
                ![w].memoizedProps = c.memoizedProps,
                ![w].memoizedState = c.memoizedState,
                ![w].updateQueue = c.updateQueue,
                ![w].dependencies = cloneDependencies(c.dependencies),
                ![w].return = c.return,
                ![w].sibling = c.sibling,
                ![w].index = c.index,
                ![w].ref = c.ref]

\* A variant of the copy that leaves child as the fiber has it.
cwipCopyKeepChild(h, w, current) ==
  LET c == h[current]
  IN  [h EXCEPT ![w].childExpirationTime = c.childExpirationTime,
                ![w].expirationTime = c.expirationTime,
                ![w].memoizedProps = c.memoizedProps,
                ![w].memoizedState = c.memoizedState,
                ![w].updateQueue = c.updateQueue,
                ![w].dependencies = cloneDependencies(c.dependencies),
                ![w].sibling = c.sibling,
                ![w].index = c.index,
                ![w].ref = c.ref]

\* A variant of the copy that takes current itself, not current's sibling, as
\* the sibling of the work-in-progress fiber.
cwipCopySelfSibling(h, w, current) ==
  LET c == h[current]
  IN  [h EXCEPT ![w].childExpirationTime = c.childExpirationTime,
                ![w].expirationTime = c.expirationTime,
                ![w].child = c.child,
                ![w].memoizedProps = c.memoizedProps,
                ![w].memoizedState = c.memoizedState,
                ![w].updateQueue = c.updateQueue,
                ![w].dependencies = cloneDependencies(c.dependencies),
                ![w].sibling = current,
                ![w].index = c.index,
                ![w].ref = c.ref]

cwipCopy(h, w, current) ==
  LET c == h[current]
  IN  [h EXCEPT ![w].childExpirationTime = c.childExpirationTime,
                ![w].expirationTime = c.expirationTime,
                ![w].child = c.child,
                ![w].memoizedProps = c.memoizedProps,
                ![w].memoizedState = c.memoizedState,
                ![w].updateQueue = c.updateQueue,
                ![w].dependencies = cloneDependencies(c.dependencies),
                ![w].sibling = c.sibling,
                ![w].index = c.index,
                ![w].ref = c.ref]

\* Variants of createWorkInProgress that allocate although an alternate exists:
\* always, or whenever the new props differ from the alternate's.
cwipAlwaysAllocate(h, current, pendingProps) ==
  LET r == cwipAllocate(h, current, pendingProps)
  IN  Result(cwipCopy(r.h, r.ret, current), r.ret)

cwipFreshOnNewProps(h, current, pendingProps) ==
  LET a == h[current].alternate
      r == IF a = Null \/ h[a].pendingProps # pendingProps
             THEN cwipAllocate(h, current, pendingProps)
             ELSE cwipReuse(h, current, pendingProps)
  IN  Result(cwipCopy(r.h, r.ret, current), r.ret)

\* A variant that allocates the fiber before it reads current.alternate.
cwipAllocateBeforeRead(h, current, pendingProps) ==
  IF current = Null
    THEN Throw(createFiber(h, "IndeterminateComponent", pendingProps, Null, NoMode).h,
               "TypeError", << >>)
    ELSE LET r == IF h[current].alternate = Null
                    THEN cwipAllocate(h, current, pendingProps)
                    ELSE cwipReuse(h, current, pendingProps)
         IN  Result(cwipCopy(r.h, r.ret, current), r.ret)

\* Reading current.alternate is the first thing createWorkInProgress does; on a
\* null current that read throws a TypeError.
createWorkInProgress(h, current, pendingProps) ==
  IF current = Null
    THEN Throw(h, "TypeError", << >>)
    ELSE LET r == IF h[current].alternate = Null
                    THEN cwipAllocate(h, current, pendingProps)
                    ELSE cwipReuse(h, current, pendingProps)
         IN  Result(cwipCopy(r.h, r.ret, current), r.ret)

(***************************************************************************)
(* resetWorkInProgress.                                                    *)
(***************************************************************************)
\* A variant that resets the effect tag as createWorkInProgress does.
rwipEffectsClearTag(h, w) ==
  [h EXCEPT ![w].effectTag = NoEffect,
            ![w].nextEffect = Null,
            ![w].firstEffect = Null,
            ![w].lastEffect = Null]

\* A variant that leaves the fiber tagged Placement whatever its tag was.
rwipEffectsAddPlacement(h, w) ==
  [h EXCEPT ![w].effectTag = Placement,
            ![w].nextEffect = Null,
            ![w].firstEffect = Null,
            ![w].lastEffect = Null]

\* A variant that resets the effect tag but keeps the fiber's list of effects.
rwipEffectsKeepList(h, w) ==
  [h EXCEPT ![w].effectTag = h[w].effectTag \cap Placement,
            ![w].nextEffect = Null]

rwipEffects(h, w) ==
  [h EXCEPT ![w].effectTag = h[w].effectTag \cap Placement,
            ![w].nextEffect = Null,
            ![w].firstEffect = Null,
            ![w].lastEffect = Null]

\* A variant that resets the expiration time to createFiber's initial value.
rwipUnpairedNoDeadline(h, w, renderExpirationTime) ==
  [h EXCEPT ![w].childExpirationTime = NoWork,
            ![w].expirationTime = NoWork,
            ![w].child = Null,
            ![w].memoizedProps = Null,
            ![w].memoizedState = Null,
            ![w].updateQueue = Null,
            ![w].dependencies = NoDependencies]

rwipUnpaired(h, w, renderExpirationTime) ==
  [h EXCEPT ![w].childExpirationTime = NoWork,
            ![w].expirationTime = renderExpirationTime,
            ![w].child = Null,
            ![w].memoizedProps = Null,
            ![w].memoizedState = Null,
            ![w].updateQueue = Null,
            ![w].dependencies = NoDependencies]

\* A variant that recopies sibling, index and ref as createWorkInProgress does.
rwipPairedRecopyLinks(h, w) ==
  LET c == h[h[w].alternate]
  IN  [h EXCEPT ![w].childExpirationTime = c.childExpirationTime,
                ![w].expirationTime = c.expirationTime,
                ![w].child = c.child,
                ![w].memoizedProps = c.memoizedProps,
                ![w].memoizedState = c.memoizedState,
                ![w].updateQueue = c.updateQueue,
                ![w].dependencies = cloneDependencies(c.dependencies),
                ![w].sibling = c.sibling,
                ![w].index = c.index,
                ![w].ref = c.ref]

rwipPaired(h, w) ==
  LET c == h[h[w].alternate]
  IN  [h EXCEPT ![w].childExpirationTime = c.childExpirationTime,
                ![w].expirationTime = c.expirationTime,
                ![w].child = c.child,
                ![w].memoizedProps = c.memoizedProps,
                ![w].memoizedState = c.memoizedState,
                ![w].updateQueue = c.updateQueue,
                ![w].dependencies = cloneDependencies(c.dependencies)]

\* A variant that gives a paired fiber the deadline of the pass as well.
rwipDeadlineOnPaired(h, w, renderExpirationTime) ==
  LET h1 == rwipEffects(h, w)
  IN  Result(IF h1[w].alternate = Null
               THEN rwipUnpaired(h1, w, renderExpirationTime)
               ELSE [rwipPaired(h1, w) EXCEPT ![w].expirationTime = renderExpirationTime],
             w)

resetWorkInProgress(h, w, renderExpirationTime) ==
  LET h1 == rwipEffects(h, w)
  IN  Result(IF h1[w].alternate = Null
               THEN rwipUnpaired(h1, w, renderExpirationTime)
               ELSE rwipPaired(h1, w), w)

\* profiling stands for enableProfilerTimer && isDevToolsPresent.
createHostRootFiber(h, tag, profiling) ==
  LET mode == IF tag = "ConcurrentRoot"
                THEN ConcurrentMode \cup BlockingMode \cup StrictMode
                ELSE IF tag = "BlockingRoot"
                  THEN BlockingMode \cup StrictMode
                  ELSE NoMode
  IN  createFiber(h, "HostRoot", Null, Null,
                  IF profiling THEN mode \cup ProfileMode ELSE mode)

(***************************************************************************)
(* The classifier: createFiberFromTypeAndProps, the constructors it        *)
(* dispatches to, and createFiberFromElement.                              *)
(***************************************************************************)
\* The build: __DEV__ and the feature flags the module imports.
VARIABLE flags

Builds ==
  [dev : BOOLEAN, enableFundamentalAPI : BOOLEAN, enableScopeAPI : BOOLEAN]

ProductionBuild ==
  [dev |-> FALSE, enableFundamentalAPI |-> FALSE, enableScopeAPI |-> FALSE]

\* The built-in element types: the symbols that are types themselves ...
SymbolType(name) == TypeShape("symbol", name, FALSE, "none", FALSE)

REACT_FRAGMENT_TYPE == SymbolType("react.fragment")
REACT_STRICT_MODE_TYPE == SymbolType("react.strict_mode")
REACT_PROFILER_TYPE == SymbolType("react.profiler")
REACT_CONCURRENT_MODE_TYPE == SymbolType("react.concurrent_mode")
REACT_SUSPENSE_TYPE == SymbolType("react.suspense")
REACT_SUSPENSE_LIST_TYPE == SymbolType("react.suspense_list")

\* ... and the symbols an object type carries as its $$typeof.
REACT_PROVIDER_TYPE == "react.provider"
REACT_CONTEXT_TYPE == "react.context"
REACT_FORWARD_REF_TYPE == "react.forward_ref"
REACT_MEMO_TYPE == "react.memo"
REACT_LAZY_TYPE == "react.lazy"
REACT_BLOCK_TYPE == "react.block"
REACT_FUNDAMENTAL_TYPE == "react.fundamental"
REACT_SCOPE_TYPE == "react.scope"

ObjectType(typeofTag) == TypeShape("object", "object", FALSE, typeofTag, FALSE)

FunctionType(name) == TypeShape("function", name, FALSE, "none", FALSE)

EmptyObject == TypeShape("object", "object", FALSE, "none", TRUE)

UndefinedType == TypeShape("undefined", "undefined", FALSE, "none", FALSE)

NumberType == TypeShape("number", "number", FALSE, "none", FALSE)

\* A variant that takes every function for a class.
shouldConstructAny(Component) == TRUE

shouldConstruct(Component) == Component.isReactComponent

\* Without a family registered for hot reloading, the resolved type is the type.
resolveClassForHotReloading(type) == type

resolveFunctionForHotReloading(type) == type

resolveForwardRefForHotReloading(type) == type

\* The children held by props.
PropsChildren(pendingProps) == << "children", pendingProps >>

\* The name of a component type, the string of a host type; nothing ("") for a
\* type without a name.
getComponentName(type) ==
  IF type.kind \in {"function", "string"} THEN type.name ELSE ""

\* getComponentName of the owner's type, nothing without owner.
OwnerName(h, owner) == IF owner = Null THEN "" ELSE getComponentName(h[owner].type)

\* Where the tests on type leave createFiberFromTypeAndProps: with the tag of
\* the fiber it goes on to create, at one of the constructors it returns the
\* result of (named by the tag that constructor gives), or at the failing
\* invariant ("invalid").
classifyTag(type) ==
  IF type.kind = "function"
    THEN IF shouldConstruct(type) THEN "ClassComponent" ELSE "IndeterminateComponent"
    ELSE IF type.kind = "string" THEN "HostComponent"
    ELSE IF type = REACT_FRAGMENT_TYPE THEN "Fragment"
    ELSE IF type = REACT_CONCURRENT_MODE_TYPE THEN "Mode"
    ELSE IF type = REACT_STRICT_MODE_TYPE THEN "Mode"
    ELSE IF type = REACT_PROFILER_TYPE THEN "Profiler"
    ELSE IF type = REACT_SUSPENSE_TYPE THEN "SuspenseComponent"
    ELSE IF type = REACT_SUSPENSE_LIST_TYPE THEN "SuspenseListComponent"
    ELSE IF type.kind # "object" THEN "invalid"
    ELSE IF type.typeofTag = REACT_PROVIDER_TYPE THEN "ContextProvider"
    ELSE IF type.typeofTag = REACT_CONTEXT_TYPE THEN "ContextConsumer"
    ELSE IF type.typeofTag = REACT_FORWARD_REF_TYPE THEN "ForwardRef"
    ELSE IF type.typeofTag = REACT_MEMO_TYPE THEN "MemoComponent"
    ELSE IF type.typeofTag = REACT_LAZY_TYPE THEN "LazyComponent"
    ELSE IF type.typeofTag = REACT_BLOCK_TYPE THEN "Block"
    ELSE IF type.typeofTag = REACT_FUNDAMENTAL_TYPE /\ flags.enableFundamentalAPI
      THEN "FundamentalComponent"
    ELSE IF type.typeofTag = REACT_SCOPE_TYPE /\ flags.enableScopeAPI
      THEN "ScopeComponent"
    ELSE "invalid"

\* A variant that makes a Mode fiber of a keyed fragment.
createFiberFromFragmentKeyed(h, elements, mode, expirationTime, key) ==
  LET made == createFiber(h, IF key = Null THEN "Fragment" ELSE "Mode", elements,
                          key, mode)
  IN  Result([made.h EXCEPT ![made.ret].expirationTime = expirationTime], made.ret)

createFiberFromFragment(h, elements, mode, expirationTime, key) ==
  LET made == createFiber(h, "Fragment", elements, key, mode)
  IN  Result([made.h EXCEPT ![made.ret].expirationTime = expirationTime], made.ret)

createFiberFromFundamental(h, fundamentalComponent, pendingProps, mode, expirationTime, key) ==
  LET made == createFiber(h, "FundamentalComponent", pendingProps, key, mode)
      f == made.ret
  IN  Result([made.h EXCEPT ![f].elementType = fundamentalComponent,
                            ![f].type = fundamentalComponent,
                            ![f].expirationTime = expirationTime], f)

createFiberFromScope(h, scope, pendingProps, mode, expirationTime, key) ==
  LET made == createFiber(h, "ScopeComponent", pendingProps, key, mode)
      f == made.ret
  IN  Result([made.h EXCEPT ![f].type = scope,
                            ![f].elementType = scope,
                            ![f].expirationTime = expirationTime], f)

\* A variant that gives a profiler ProfileMode alone, without the mode it was
\* handed.
createFiberFromProfilerOwnMode(h, pendingProps, mode, expirationTime, key) ==
  LET made == createFiber(h, "Profiler", pendingProps, key, ProfileMode)
      f == made.ret
  IN  Result([made.h EXCEPT ![f].elementType = REACT_PROFILER_TYPE,
                            ![f].type = REACT_PROFILER_TYPE,
                            ![f].expirationTime = expirationTime], f)

createFiberFromProfiler(h, pendingProps, mode, expirationTime, key) ==
  LET made == createFiber(h, "Profiler", pendingProps, key, mode \cup ProfileMode)
      f == made.ret
  IN  Result([made.h EXCEPT ![f].elementType = REACT_PROFILER_TYPE,
                            ![f].type = REACT_PROFILER_TYPE,
                            ![f].expirationTime = expirationTime], f)

createFiberFromSuspense(h, pendingProps, mode, expirationTime, key) ==
  LET made == createFiber(h, "SuspenseComponent", pendingProps, key, mode)
      f == made.ret
  IN  Result([made.h EXCEPT ![f].type = REACT_SUSPENSE_TYPE,
                            ![f].elementType = REACT_SUSPENSE_TYPE,
                            ![f].expirationTime = expirationTime], f)

\* A variant that makes a suspense boundary of a suspense list.
createFiberFromSuspenseListAsSuspense(h, pendingProps, mode, expirationTime, key) ==
  LET made == createFiber(h, "SuspenseComponent", pendingProps, key, mode)
      f == made.ret
  IN  Result([made.h EXCEPT ![f].type = IF flags.dev THEN REACT_SUSPENSE_LIST_TYPE ELSE @,
                            ![f].elementType = REACT_SUSPENSE_LIST_TYPE,
                            ![f].expirationTime = expirationTime], f)

createFiberFromSuspenseList(h, pendingProps, mode, expirationTime, key) ==
  LET made == createFiber(h, "SuspenseListComponent", pendingProps, key, mode)
      f == made.ret
  IN  Result([made.h EXCEPT ![f].type = IF flags.dev THEN REACT_SUSPENSE_LIST_TYPE ELSE @,
                            ![f].elementType = REACT_SUSPENSE_LIST_TYPE,
                            ![f].expirationTime = expirationTime], f)

\* A variant of the failing invariant that has a fiber created before it fails.
invalidElementTypeAfterCreate(h, type, owner) ==
  Throw(createFiber(h, "IndeterminateComponent", Null, Null, NoMode).h,
        "Element type is invalid",
        << type.kind, FALSE, "" >>)

\* A variant whose message hints at a forgotten export whatever the type is.
invalidElementTypeHintAlways(h, type, owner) ==
  Throw(h, "Element type is invalid",
        << type.kind, flags.dev, IF flags.dev THEN OwnerName(h, owner) ELSE "" >>)

\* The failing invariant: its message names what it got, and in a DEV build
\* hints at a forgotten export and names the owner, if the owner has a name.
invalidElementType(h, type, owner) ==
  Throw(h, "Element type is invalid",
        << type.kind,
           flags.dev /\ (type.kind = "undefined" \/ (type.kind = "object" /\ type.empty)),
           IF flags.dev THEN OwnerName(h, owner) ELSE "" >>)

\* A variant in which the concurrent-mode type adds no StrictMode.
modeOfTypeNoStrict(type) ==
  IF type = REACT_CONCURRENT_MODE_TYPE
    THEN ConcurrentMode \cup BlockingMode
    ELSE IF type = REACT_STRICT_MODE_TYPE THEN StrictMode ELSE NoMode

\* What the concurrent-mode and strict-mode types add to the mode.
modeOfType(type) ==
  IF type = REACT_CONCURRENT_MODE_TYPE
    THEN ConcurrentMode \cup BlockingMode \cup StrictMode
    ELSE IF type = REACT_STRICT_MODE_TYPE THEN StrictMode ELSE NoMode

resolvedTypeOf(type, fiberTag) ==
  IF fiberTag = "LazyComponent" THEN NullType
  ELSE IF ~flags.dev THEN type
  ELSE IF fiberTag = "ClassComponent" THEN resolveClassForHotReloading(type)
  ELSE IF fiberTag = "IndeterminateComponent" THEN resolveFunctionForHotReloading(type)
  ELSE IF fiberTag = "ForwardRef" THEN resolveForwardRefForHotReloading(type)
  ELSE type

createFiberFromTypeAndProps(h, type, key, pendingProps, owner, mode, expirationTime) ==
  LET fiberTag == classifyTag(type)
  IN  CASE fiberTag = "Fragment" ->
             createFiberFromFragment(h, PropsChildren(pendingProps), mode,
                                     expirationTime, key)
        [] fiberTag = "Profiler" ->
             createFiberFromProfiler(h, pendingProps, mode, expirationTime, key)
        [] fiberTag = "SuspenseComponent" ->
             createFiberFromSuspense(h, pendingProps, mode, expirationTime, key)
        [] fiberTag = "SuspenseListComponent" ->
             createFiberFromSuspenseList(h, pendingProps, mode, expirationTime, key)
        [] fiberTag = "FundamentalComponent" ->
             createFiberFromFundamental(h, type, pendingProps, mode, expirationTime, key)
        [] fiberTag = "ScopeComponent" ->
             createFiberFromScope(h, type, pendingProps, mode, expirationTime, key)
        [] fiberTag = "invalid" -> invalidElementType(h, type, owner)
        [] OTHER ->
             LET made == createFiber(h, fiberTag, pendingProps, key,
                                     mode \cup modeOfType(type))
                 f == made.ret
             IN  Result([made.h EXCEPT ![f].elementType = type,
                                       ![f].type = resolvedTypeOf(type, fiberTag),
                                       ![f].expirationTime = expirationTime], f)

createFiberFromElement(h, element, mode, expirationTime) ==
  createFiberFromTypeAndProps(h, element.type, element.key, element.props,
                              IF flags.dev THEN element.owner ELSE Null,
                              mode, expirationTime)

(***************************************************************************)
(* The tree a pass can describe: keyed positions below the host root.      *)
(* Keys 1 and 2 are the root's children, key q > 2 is the child of q - 2.  *)
(***************************************************************************)
Keys == 1 .. NKeys

ParentKey(q) == IF q <= 2 THEN Null ELSE q - 2

RECURSIVE Ascending(_)
Ascending(S) ==
  IF S = {} THEN << >>
  ELSE LET m == CHOOSE x \in S : \A y \in S : x <= y
       IN  << m >> \o Ascending(S \ {m})

ChildKeys(k) == Ascending({q \in Keys : ParentKey(q) = k})

TypeOfKey(q) == IF q = 1 THEN ClassType("App") ELSE HostTag("div")

Element(q, props) ==
  [type |-> TypeOfKey(q), key |-> q, props |-> props, owner |-> Null]

Deadlines == {1}

(***************************************************************************)
(* Reading the heap: chains of siblings and of effects.                    *)
(***************************************************************************)
RECURSIVE SiblingChain(_, _, _)
SiblingChain(h, f, fuel) ==
  IF f = Null \/ fuel = 0 THEN << >>
  ELSE << f >> \o SiblingChain(h, h[f].sibling, fuel - 1)

Children(h, f) == SiblingChain(h, h[f].child, Len(h))

\* The effect chain from f through nextEffect; one step longer than the heap
\* when the chain does not end.
RECURSIVE EffectChain(_, _, _)
EffectChain(h, f, fuel) ==
  IF f = Null \/ fuel = 0 THEN << >>
  ELSE << f >> \o EffectChain(h, h[f].nextEffect, fuel - 1)

EffectList(h, f) == EffectChain(h, h[f].firstEffect, Len(h) + 1)

Range(s) == {s[i] : i \in DOMAIN s}

\* The child of current fiber c that carries key q, or Null.
ExistingChild(h, c, q) ==
  IF c = Null THEN Null
  ELSE LET hit == {x \in Range(Children(h, c)) : h[x].key = q}
       IN  IF hit = {} THEN Null ELSE CHOOSE x \in hit : TRUE

\* The fibers of the tree below f, children before their parent, siblings
\* left to right.
RECURSIVE PostOrder(_, _, _), ForestPostOrder(_, _, _)
PostOrder(h, f, fuel) ==
  IF fuel = 0 THEN << >>
  ELSE ForestPostOrder(h, Children(h, f), fuel - 1) \o << f >>

ForestPostOrder(h, s, fuel) ==
  IF s = << >> THEN << >>
  ELSE PostOrder(h, Head(s), fuel) \o ForestPostOrder(h, Tail(s), fuel)

\* The children of w's current fiber that w's new child list leaves out, in
\* sibling order.
DeletedChildren(h, w) ==
  IF h[w].alternate = Null THEN << >>
  ELSE SelectSeq(Children(h, h[w].alternate),
                 LAMBDA x : \A y \in Range(Children(h, w)) : h[y].alternate # x)

\* The order in which a pass queues effects below and at f: the children f
\* deleted, then each child's subtree, then f itself if it changed.
RECURSIVE CommitOrder(_, _, _), ForestCommitOrder(_, _, _)
CommitOrder(h, f, fuel) ==
  IF fuel = 0 THEN << >>
  ELSE DeletedChildren(h, f)
         \o ForestCommitOrder(h, Children(h, f), fuel - 1)
         \o (IF h[f].effectTag # NoEffect THEN << f >> ELSE << >>)

ForestCommitOrder(h, s, fuel) ==
  IF s = << >> THEN << >>
  ELSE CommitOrder(h, Head(s), fuel) \o ForestCommitOrder(h, Tail(s), fuel)

VARIABLES
  fiber,                \* the heap of fibers
  current,              \* FiberRoot.current: the root of the committed tree
  workInProgress,       \* the next unit of work, or Null
  pc,                   \* where the pass stands
  rc,                   \* the child reconciliation in progress
  renderExpirationTime, \* the deadline of the pass
  yielded,              \* the pass has yielded and not resumed
  resumed,              \* the pass has yielded and been resumed
  budget,               \* second passes over a unit, cancels and commits so far
  completed,            \* the fibers completed in this pass, in order
  last,                 \* the pool operation the last step performed
  base,                 \* the heap when the pass started
  paired,               \* the pairings made since the last commit
  objects               \* the context items and responder maps dependencies refer to

vars == << fiber, current, workInProgress, pc, rc, renderExpirationTime,
           yielded, resumed, budget, completed, last, base, paired, objects, flags >>

\* The objects a dependencies object refers to: context items, each with the
\* context it reads and the next item of the list, and responder maps, each the
\* set of responders it holds.  Items 1 and 2 are one-item lists, map 3 is empty.
ContextItem(context, next) == [kind |-> "context", context |-> context, next |-> next]

ResponderMap(responders) == [kind |-> "responders", responders |-> responders]

InitialObjects == << ContextItem(1, Null), ContextItem(2, Null), ResponderMap({}) >>

\* The record of the latest pool operation: its arguments, its result, the heap
\* it was called on, and the result of the earlier pairing of the same current
\* fiber since the last commit (Null when there was none).
NoCall ==
  [op |-> "none", arg |-> Null, props |-> Null, ret |-> Null, heap |-> << >>,
   prior |-> Null, threw |-> "none", message |-> << >>]

Call(op, arg, props, ret, h, prior) ==
  [op |-> op, arg |-> arg, props |-> props, ret |-> ret, heap |-> h, prior |-> prior,
   threw |-> "none", message |-> << >>]

PriorPairing(ps, c) ==
  IF \E p \in ps : p[1] = c THEN (CHOOSE p \in ps : p[1] = c)[2] ELSE Null

RecordPairing(ps, c, w) ==
  IF \E p \in ps : p[1] = c THEN ps ELSE ps \cup {<< c, w >>}

NoChild == [idx |-> 0, first |-> Null, prev |-> Null, cand |-> Null]

\* createFiberRoot: a legacy root, whose host root fiber points at the root.
Init ==
  /\ flags = ProductionBuild
  /\ fiber = [createHostRootFiber(<< >>, "LegacyRoot", FALSE).h EXCEPT ![1].stateNode = 1]
  /\ current = 1
  /\ workInProgress = Null
  /\ pc = "idle"
  /\ rc = NoChild
  /\ renderExpirationTime = NoWork
  /\ yielded = FALSE
  /\ resumed = FALSE
  /\ budget = [retries |-> 0, cancels |-> 0, commits |-> 0]
  /\ completed = << >>
  /\ last = NoCall
  /\ base = << >>
  /\ paired = {}
  /\ objects = InitialObjects

WipRoot == fiber[current].alternate

\* What a finished pass hands to the commit: the root's effect list, and the
\* root itself at its end if the root changed.
FinalEffects ==
  EffectList(fiber, WipRoot)
    \o (IF fiber[WipRoot].effectTag # NoEffect THEN << WipRoot >> ELSE << >>)

(***************************************************************************)
(* prepareFreshStack: a pass starts by pairing the root.                   *)
(***************************************************************************)
StartPass ==
  /\ pc = "idle"
  /\ objects' = objects
  /\ flags' = flags
  /\ budget.commits < MaxCommits
  /\ \E t \in Deadlines :
       LET r == createWorkInProgress(fiber, current, Null)
       IN  /\ fiber' = r.h
           /\ workInProgress' = r.ret
           /\ renderExpirationTime' = t
           /\ last' = Call("createWorkInProgress", current, Null, r.ret, fiber,
                            PriorPairing(paired, current))
           /\ paired' = RecordPairing(paired, current, r.ret)
  /\ pc' = "begin"
  /\ rc' = NoChild
  /\ base' = fiber
  /\ UNCHANGED << current, yielded, resumed, budget, completed >>

(***************************************************************************)
(* beginWork on one unit: the per-kind update logic marks the fiber's own  *)
(* change and writes its render-phase fields.  The root carries an effect  *)
(* of its own when it renders into an empty container.                     *)
(***************************************************************************)
beginWork(h, w) ==
  LET f == h[w]
      c == f.alternate
      isClass == f.tag = "ClassComponent"
      changed == IF f.tag = "HostRoot" THEN f.child = Null
                 ELSE IF c = Null THEN isClass
                 ELSE f.pendingProps # h[c].memoizedProps
  IN  [h EXCEPT
        ![w].effectTag = IF changed THEN @ \cup Update ELSE @,
        ![w].expirationTime = NoWork,
        ![w].stateNode = IF @ = Null THEN w ELSE @,
        ![w].memoizedState = IF isClass THEN f.pendingProps ELSE @,
        ![w].updateQueue = IF isClass /\ @ = Null THEN w ELSE @,
        ![w].dependencies =
           IF isClass
             THEN << [expirationTime |-> NoWork,
                      firstContext |-> f.pendingProps,
                      responders |-> Null] >>
             ELSE @]

BeginWork ==
  /\ pc = "begin"
  /\ objects' = objects
  /\ flags' = flags
  /\ ~yielded
  /\ fiber' = beginWork(fiber, workInProgress)
  /\ rc' = [NoChild EXCEPT !.idx = 1]
  /\ pc' = "reconcile"
  /\ last' = NoCall
  /\ paired' = paired
  /\ UNCHANGED << current, workInProgress, renderExpirationTime, yielded, resumed, budget,
                  completed, base >>

(***************************************************************************)
(* Child reconciliation, one child position per step.                      *)
(***************************************************************************)
Slots == ChildKeys(fiber[workInProgress].key)

Reconciling == pc = "reconcile" /\ rc.idx <= Len(Slots)

Existing == ExistingChild(fiber, fiber[workInProgress].alternate, Slots[rc.idx])

\* useFiber: the element keeps its position; pair its current fiber.
UseFiber ==
  /\ Reconciling
  /\ objects' = objects
  /\ flags' = flags
  /\ Existing # Null
  /\ \E props \in Props :
       LET r == createWorkInProgress(fiber, Existing, props)
       IN  /\ fiber' = r.h
           /\ rc' = [rc EXCEPT !.cand = r.ret]
           /\ last' = Call("createWorkInProgress", Existing, props, r.ret, fiber,
                            PriorPairing(paired, Existing))
           /\ paired' = RecordPairing(paired, Existing, r.ret)
  /\ pc' = "place"
  /\ UNCHANGED << current, workInProgress, renderExpirationTime, yielded, resumed, budget,
                  completed, base >>

\* A new element: the classifier creates its fiber.
CreateChild ==
  /\ Reconciling
  /\ objects' = objects
  /\ flags' = flags
  /\ Existing = Null
  /\ \E props \in InitialProps :
       LET r == createFiberFromElement(fiber, Element(Slots[rc.idx], props),
                                       fiber[workInProgress].mode, renderExpirationTime)
       IN  /\ fiber' = r.h
           /\ rc' = [rc EXCEPT !.cand = r.ret]
           /\ last' = Call("createFiberFromElement", Null, props, r.ret, fiber, Null)
  /\ pc' = "place"
  /\ paired' = paired
  /\ UNCHANGED << current, workInProgress, renderExpirationTime, yielded, resumed, budget,
                  completed, base >>

\* deleteChild: the element is gone; its fiber is tagged Deletion and put on
\* the returning fiber's effect list.
deleteChild(h, returnFiber, childToDelete) ==
  LET lastEffect == h[returnFiber].lastEffect
      h1 == IF lastEffect # Null
              THEN [h EXCEPT ![lastEffect].nextEffect = childToDelete,
                             ![returnFiber].lastEffect = childToDelete]
              ELSE [h EXCEPT ![returnFiber].firstEffect = childToDelete,
                             ![returnFiber].lastEffect = childToDelete]
  IN  [h1 EXCEPT ![childToDelete].nextEffect = Null,
                 ![childToDelete].effectTag = Deletion]

DeleteChild ==
  /\ Reconciling
  /\ objects' = objects
  /\ flags' = flags
  /\ Existing # Null
  /\ fiber' = deleteChild(fiber, workInProgress, Existing)
  /\ rc' = [rc EXCEPT !.idx = @ + 1]
  /\ last' = Call("deleteChild", Existing, Null, Null, fiber, Null)
  /\ paired' = paired
  /\ UNCHANGED << current, workInProgress, pc, renderExpirationTime, yielded, resumed, budget,
                  completed, base >>

\* No element and no fiber at this position.
SkipChild ==
  /\ Reconciling
  /\ objects' = objects
  /\ flags' = flags
  /\ Existing = Null
  /\ rc' = [rc EXCEPT !.idx = @ + 1]
  /\ last' = NoCall
  /\ paired' = paired
  /\ UNCHANGED << fiber, current, workInProgress, pc, renderExpirationTime, yielded,
                  resumed, budget, completed, base >>

\* placeChild: the parent links the child it obtained into its new child list.
placeChild(h, returnFiber, newFiber, newIndex, previousNewFiber) ==
  LET tracked == h[returnFiber].alternate # Null
      h1 == [h EXCEPT
               ![newFiber].return = returnFiber,
               ![newFiber].index = newIndex,
               ![newFiber].sibling = Null,
               ![newFiber].effectTag =
                  IF tracked /\ h[newFiber].alternate = Null THEN Placement ELSE @]
  IN  IF previousNewFiber = Null THEN h1
      ELSE [h1 EXCEPT ![previousNewFiber].sibling = newFiber]

PlaceChild ==
  /\ pc = "place"
  /\ objects' = objects
  /\ flags' = flags
  /\ fiber' = placeChild(fiber, workInProgress, rc.cand, rc.idx - 1, rc.prev)
  /\ rc' = [idx |-> rc.idx + 1,
            first |-> IF rc.first = Null THEN rc.cand ELSE rc.first,
            prev |-> rc.cand,
            cand |-> Null]
  /\ pc' = "reconcile"
  /\ last' = NoCall
  /\ paired' = paired
  /\ UNCHANGED << current, workInProgress, renderExpirationTime, yielded, resumed, budget,
                  completed, base >>

\* The children are reconciled: the unit's input becomes its memoized input and
\* the pass descends to the first child, or completes a childless unit.
FinishBegin ==
  /\ pc = "reconcile"
  /\ objects' = objects
  /\ flags' = flags
  /\ rc.idx > Len(Slots)
  /\ fiber' = [fiber EXCEPT ![workInProgress].child = rc.first,
                            ![workInProgress].memoizedProps =
                               fiber[workInProgress].pendingProps]
  /\ IF rc.first # Null
       THEN workInProgress' = rc.first /\ pc' = "begin"
       ELSE workInProgress' = workInProgress /\ pc' = "complete"
  /\ rc' = NoChild
  /\ last' = NoCall
  /\ paired' = paired
  /\ UNCHANGED << current, renderExpirationTime, yielded, resumed, budget, completed, base >>

(***************************************************************************)
(* completeUnitOfWork on one unit: the effect list assembler.              *)
(***************************************************************************)
completeUnit(h, w) ==
  LET r == h[w].return
      h1 == IF h[r].firstEffect = Null
              THEN [h EXCEPT ![r].firstEffect = h[w].firstEffect]
              ELSE h
      h2 == IF h1[w].lastEffect # Null
              THEN LET h1a == IF h1[r].lastEffect # Null
                                THEN [h1 EXCEPT ![h1[r].lastEffect].nextEffect =
                                                   h1[w].firstEffect]
                                ELSE h1
                   IN  [h1a EXCEPT ![r].lastEffect = h1a[w].lastEffect]
              ELSE h1
      h3 == IF h2[w].effectTag # NoEffect
              THEN LET h2a == IF h2[r].lastEffect # Null
                                THEN [h2 EXCEPT ![h2[r].lastEffect].nextEffect = w]
                                ELSE [h2 EXCEPT ![r].firstEffect = w]
                   IN  [h2a EXCEPT ![r].lastEffect = w]
              ELSE h2
  IN  IF r = Null THEN h ELSE h3

\* A variant that returns to the parent although a sibling is left.
nextUnitParentFirst(h, w) ==
  IF h[w].return # Null THEN [unit |-> h[w].return, pc |-> "complete"]
  ELSE [unit |-> Null, pc |-> "finished"]

\* The unit the pass turns to after completing w: its sibling, else its parent.
nextUnit(h, w) ==
  IF h[w].sibling # Null THEN [unit |-> h[w].sibling, pc |-> "begin"]
  ELSE IF h[w].return # Null THEN [unit |-> h[w].return, pc |-> "complete"]
  ELSE [unit |-> Null, pc |-> "finished"]

CompleteUnit ==
  /\ pc = "complete"
  /\ objects' = objects
  /\ flags' = flags
  /\ ~yielded
  /\ fiber' = completeUnit(fiber, workInProgress)
  /\ completed' = Append(completed, workInProgress)
  /\ workInProgress' = nextUnit(fiber, workInProgress).unit
  /\ pc' = nextUnit(fiber, workInProgress).pc
  /\ last' = NoCall
  /\ paired' = paired
  /\ UNCHANGED << current, rc, renderExpirationTime, yielded, resumed, budget, base >>

\* A second pass over a unit whose first attempt is discarded.
RetryUnit ==
  /\ pc = "complete"
  /\ objects' = objects
  /\ flags' = flags
  /\ ~yielded
  /\ budget.retries + budget.cancels < MaxDisruptions
  /\ fiber[workInProgress].return # Null
  /\ LET r == resetWorkInProgress(fiber, workInProgress, renderExpirationTime)
     IN  /\ fiber' = r.h
         /\ last' = Call("resetWorkInProgress", workInProgress, Null, r.ret, fiber, Null)
  /\ budget' = [budget EXCEPT !.retries = @ + 1]
  /\ pc' = "begin"
  /\ paired' = paired
  /\ UNCHANGED << current, workInProgress, rc, renderExpirationTime, yielded,
                  resumed, completed, base >>

(***************************************************************************)
(* Yield and resume between units, cancellation, commit.                   *)
(***************************************************************************)
Yield ==
  /\ pc = "complete"
  /\ objects' = objects
  /\ flags' = flags
  /\ ~yielded
  /\ yielded' = TRUE
  /\ last' = NoCall
  /\ paired' = paired
  /\ UNCHANGED << fiber, current, workInProgress, pc, rc, renderExpirationTime,
                  resumed, budget, completed, base >>

\* A variant that re-enters at the parent of the unit the pass yielded on.
ResumeAtParent ==
  /\ yielded
  /\ objects' = objects
  /\ flags' = flags
  /\ yielded' = FALSE
  /\ resumed' = TRUE
  /\ last' = NoCall
  /\ workInProgress' = IF fiber[workInProgress].return # Null
                         THEN fiber[workInProgress].return
                         ELSE workInProgress
  /\ paired' = paired
  /\ UNCHANGED << fiber, current, pc, rc, renderExpirationTime, budget, completed, base >>

Resume ==
  /\ yielded
  /\ objects' = objects
  /\ flags' = flags
  /\ yielded' = FALSE
  /\ resumed' = TRUE
  /\ last' = NoCall
  /\ paired' = paired
  /\ UNCHANGED << fiber, current, workInProgress, pc, rc, renderExpirationTime,
                  budget, completed, base >>

Cancel ==
  /\ yielded
  /\ objects' = objects
  /\ flags' = flags
  /\ budget.retries + budget.cancels < MaxDisruptions
  /\ budget' = [budget EXCEPT !.cancels = @ + 1]
  /\ workInProgress' = Null
  /\ pc' = "idle"
  /\ renderExpirationTime' = NoWork
  /\ yielded' = FALSE
  /\ resumed' = FALSE
  /\ completed' = << >>
  /\ last' = NoCall
  /\ base' = << >>
  /\ paired' = paired
  /\ UNCHANGED << fiber, current, rc >>

Commit ==
  /\ pc = "finished"
  /\ objects' = objects
  /\ flags' = flags
  /\ current' = WipRoot
  /\ budget' = [budget EXCEPT !.commits = @ + 1]
  /\ pc' = "idle"
  /\ renderExpirationTime' = NoWork
  /\ resumed' = FALSE
  /\ completed' = << >>
  /\ last' = NoCall
  /\ base' = << >>
  /\ paired' = {}
  /\ UNCHANGED << fiber, workInProgress, rc, yielded >>

Next ==
  \/ StartPass
  \/ BeginWork
  \/ UseFiber
  \/ CreateChild
  \/ DeleteChild
  \/ SkipChild
  \/ PlaceChild
  \/ FinishBegin
  \/ CompleteUnit
  \/ RetryUnit
  \/ Yield
  \/ Resume
  \/ Cancel
  \/ Commit

Spec == Init /\ [][Next]_vars
(***************************************************************************)
(* The pool operations applied directly.  A second pass is under way over  *)
(* a committed tree of a host root and one class component; the pass has   *)
(* its work-in-progress root and one new, unpaired fiber.  Between the     *)
(* calls the render phase writes to the work-in-progress fibers and to the *)
(* dependencies they hold.                                                 *)
(***************************************************************************)
\* The dependencies the committed class component may hold.
CurrentDependencies ==
  { NoDependencies,
    << [expirationTime |-> NoWork, firstContext |-> 1, responders |-> 3] >>,
    << [expirationTime |-> 1, firstContext |-> 2, responders |-> Null] >> }

\* The heap after a first pass mounted and committed the component with props p
\* and dependencies d, and a second pass paired the root and created a fiber for
\* a new element.  Fiber 2 is the committed root, 1 its alternate, 3 the
\* component, 4 the new fiber.
PoolHeap(p, d) ==
  LET h0 == [createHostRootFiber(<< >>, "LegacyRoot", FALSE).h EXCEPT ![1].stateNode = 1]
      root == createWorkInProgress(h0, 1, Null)
      app == createFiberFromElement(root.h, Element(1, p), NoMode, 1)
      h1 == [app.h EXCEPT ![root.ret].child = app.ret,
                          ![root.ret].effectTag = Update,
                          ![root.ret].firstEffect = app.ret,
                          ![root.ret].lastEffect = app.ret,
                          ![app.ret].return = root.ret,
                          ![app.ret].effectTag = Placement \cup Update,
                          ![app.ret].stateNode = app.ret,
                          ![app.ret].expirationTime = NoWork,
                          ![app.ret].memoizedProps = p,
                          ![app.ret].memoizedState = p,
                          ![app.ret].updateQueue = app.ret,
                          ![app.ret].dependencies = d]
      again == createWorkInProgress(h1, root.ret, Null)
      new == createFiberFromElement(again.h, Element(2, 1), NoMode, 1)
  IN  [new.h EXCEPT ![new.ret].return = again.ret,
                    ![new.ret].index = 1,
                    ![new.ret].effectTag = Placement]

PoolInit ==
  /\ flags = ProductionBuild
  /\ \E p \in Props, d \in CurrentDependencies : fiber = PoolHeap(p, d)
  /\ current = 2
  /\ workInProgress = Null
  /\ pc = "pool"
  /\ rc = NoChild
  /\ renderExpirationTime = 1
  /\ yielded = FALSE
  /\ resumed = FALSE
  /\ budget = [retries |-> 0, cancels |-> 0, commits |-> 1]
  /\ completed = << >>
  /\ last = NoCall
  /\ base = fiber
  /\ paired = {}
  /\ objects = InitialObjects

\* The fibers of the committed tree below the root, and the work-in-progress
\* fibers below the work-in-progress root.
CurrentSide == Range(PostOrder(fiber, current, Len(fiber))) \ {current}

WorkSide == DOMAIN fiber \ (CurrentSide \cup {current, fiber[current].alternate})

PoolDeadlines == {1, 2}

PoolFrame ==
  UNCHANGED << current, workInProgress, pc, rc, renderExpirationTime, yielded,
               resumed, budget, completed, base, paired, flags >>

\* createWorkInProgress on a fiber of the committed tree below the root, or on
\* null.
PoolPair ==
  /\ pc = "pool"
  /\ \E c \in CurrentSide \cup {Null}, props \in Props :
       LET r == createWorkInProgress(fiber, c, props)
       IN  /\ fiber' = r.h
           /\ last' = [Call("createWorkInProgress", c, props, r.ret, fiber, Null)
                         EXCEPT !.threw = r.threw, !.message = r.message]
  /\ objects' = objects
  /\ PoolFrame

\* resetWorkInProgress on a work-in-progress fiber.
PoolReset ==
  /\ pc = "pool"
  /\ \E w \in WorkSide, t \in PoolDeadlines :
       LET r == resetWorkInProgress(fiber, w, t)
       IN  /\ fiber' = r.h
           /\ last' = Call("resetWorkInProgress", w, t, r.ret, fiber, Null)
  /\ objects' = objects
  /\ PoolFrame

\* What rendering w and reconciling around it writes to w: its effect tag, its
\* memoized props and state, its remaining work, its list of effects, the
\* sibling its parent links it to, and a dependencies object if it had none.
renderWrites(h, w, tags) ==
  [h EXCEPT ![w].effectTag = tags,
            ![w].memoizedProps = h[w].pendingProps,
            ![w].memoizedState = h[w].pendingProps,
            ![w].updateQueue = w,
            ![w].expirationTime = NoWork,
            ![w].child = Null,
            ![w].dependencies =
               IF @ = NoDependencies
                 THEN << [expirationTime |-> NoWork, firstContext |-> Null,
                          responders |-> Null] >>
                 ELSE @,
            ![w].sibling = IF h[w].alternate = Null THEN Null ELSE Len(base),
            ![w].firstEffect = w,
            ![w].lastEffect = w,
            ![w].nextEffect = IF h[w].alternate = Null THEN Null ELSE Len(base)]

PoolRender ==
  /\ pc = "pool"
  /\ \E w \in WorkSide, tags \in {Update, Placement \cup Update} :
       fiber' = renderWrites(fiber, w, tags)
  /\ last' = NoCall
  /\ objects' = objects
  /\ PoolFrame

\* The work-in-progress fibers that hold a dependencies object.
Dependents == {w \in WorkSide : fiber[w].dependencies # NoDependencies}

\* Writes to the fields of the dependencies object of w: its expiration time is
\* raised to that of a pending change, its context list is emptied before w is
\* rendered.
MarkDependencies ==
  /\ pc = "pool"
  /\ \E w \in Dependents :
       /\ fiber[w].dependencies[1].expirationTime # 2
       /\ fiber' = [fiber EXCEPT ![w].dependencies[1].expirationTime = 2]
  /\ last' = NoCall
  /\ objects' = objects
  /\ PoolFrame

ResetContextList ==
  /\ pc = "pool"
  /\ \E w \in Dependents :
       /\ fiber[w].dependencies[1].firstContext # Null
       /\ fiber' = [fiber EXCEPT ![w].dependencies[1].firstContext = Null]
  /\ last' = NoCall
  /\ objects' = objects
  /\ PoolFrame

\* Writes to the objects the dependencies object of w refers to: an item is
\* appended to its context list, a responder is added to its responders map.
PushContext ==
  /\ pc = "pool"
  /\ \E w \in Dependents, item \in {1, 2} :
       LET first == fiber[w].dependencies[1].firstContext
       IN  /\ first # Null
           /\ first # item
           /\ objects[first].next = Null
           /\ objects[item].next = Null
           /\ objects' = [objects EXCEPT ![first].next = item]
  /\ last' = NoCall
  /\ fiber' = fiber
  /\ PoolFrame

SetResponder ==
  /\ pc = "pool"
  /\ \E w \in Dependents :
       LET map == fiber[w].dependencies[1].responders
       IN  /\ map # Null
           /\ objects[map].responders = {}
           /\ objects' = [objects EXCEPT ![map].responders = {1}]
  /\ last' = NoCall
  /\ fiber' = fiber
  /\ PoolFrame

PoolNext ==
  \/ PoolPair
  \/ PoolReset
  \/ PoolRender
  \/ MarkDependencies
  \/ ResetContextList
  \/ PushContext
  \/ SetResponder

SpecPool == PoolInit /\ [][PoolNext]_vars

(***************************************************************************)
(* The classifier applied directly, in every build, to element types of    *)
(* every shape, over the heap of a second pass under way, with the         *)
(* deadline of that pass.                                                  *)
(***************************************************************************)
MaxClassified == 1 \* fibers the classifier may add to the heap

ElementTypes ==
  { HostTag("div"), ClassType("App"), FunctionType("Fn"),
    REACT_FRAGMENT_TYPE, REACT_STRICT_MODE_TYPE, REACT_PROFILER_TYPE,
    REACT_CONCURRENT_MODE_TYPE, REACT_SUSPENSE_TYPE, REACT_SUSPENSE_LIST_TYPE,
    SymbolType("react.unknown"),
    ObjectType(REACT_PROVIDER_TYPE), ObjectType(REACT_CONTEXT_TYPE),
    ObjectType(REACT_FORWARD_REF_TYPE), ObjectType(REACT_MEMO_TYPE),
    ObjectType(REACT_LAZY_TYPE), ObjectType(REACT_BLOCK_TYPE),
    ObjectType(REACT_FUNDAMENTAL_TYPE), ObjectType(REACT_SCOPE_TYPE),
    ObjectType("react.element"), ObjectType("none"), EmptyObject,
    UndefinedType, NullType, NumberType }

\* The names the committed component may have: "App", or none.
ComponentNames == {"App", ""}

\* The heap h with its class component named name.
NamedHeap(h, name) ==
  LET app == CHOOSE f \in DOMAIN h : h[f].tag = "ClassComponent"
  IN  [h EXCEPT ![app].type.name = name, ![app].elementType.name = name]

ClassifyInit ==
  /\ flags \in Builds
  /\ \E name \in ComponentNames : fiber = NamedHeap(PoolHeap(1, NoDependencies), name)
  /\ current = 2
  /\ workInProgress = Null
  /\ pc = "classify"
  /\ rc = NoChild
  /\ renderExpirationTime \in PoolDeadlines
  /\ yielded = FALSE
  /\ resumed = FALSE
  /\ budget = [retries |-> 0, cancels |-> 0, commits |-> 1]
  /\ completed = << >>
  /\ last = NoCall
  /\ base = fiber
  /\ paired = {}
  /\ objects = InitialObjects

\* The fibers that can own an element: the components.
Owners == {f \in DOMAIN fiber : fiber[f].tag = "ClassComponent"}

\* A call of the classifier; an invalid element type is fatal to the pass.
Classify ==
  /\ pc = "classify"
  /\ Len(fiber) < Len(base) + MaxClassified
  /\ \E type \in ElementTypes, key \in {Null, 1}, pendingProps \in Props,
        owner \in Owners \cup {Null}, mode \in {NoMode, BlockingMode} :
       LET r == createFiberFromTypeAndProps(fiber, type, key, pendingProps, owner,
                                            mode, renderExpirationTime)
           args == [type |-> type, key |-> key, owner |-> owner, mode |-> mode,
                    expirationTime |-> renderExpirationTime]
       IN  /\ fiber' = r.h
           /\ last' = [Call("createFiberFromTypeAndProps", args, pendingProps, r.ret,
                            fiber, Null)
                         EXCEPT !.threw = r.threw, !.message = r.message]
           /\ pc' = IF r.threw = "none" THEN pc ELSE "failed"
  /\ objects' = objects
  /\ UNCHANGED << current, workInProgress, rc, renderExpirationTime, yielded,
                  resumed, budget, completed, base, paired, flags >>

\* The fibers the classifier made, and the alternates they were given since.
ClassifiedFibers == (Len(base) + 1)..Len(fiber)

\* createWorkInProgress on a fiber that came from the classifier, or on its
\* alternate: what a later pass does with the child a pass created.
PairClassified ==
  /\ pc = "classify"
  /\ \E c \in ClassifiedFibers, props \in Props :
       LET r == createWorkInProgress(fiber, c, props)
       IN  /\ fiber' = r.h
           /\ last' = Call("createWorkInProgress", c, props, r.ret, fiber, Null)
  /\ objects' = objects
  /\ PoolFrame

\* resetWorkInProgress on a fiber that came from the classifier, or on its
\* alternate.
ResetClassified ==
  /\ pc = "classify"
  /\ \E w \in ClassifiedFibers :
       LET r == resetWorkInProgress(fiber, w, renderExpirationTime)
       IN  /\ fiber' = r.h
           /\ last' = Call("resetWorkInProgress", w, renderExpirationTime, r.ret,
                           fiber, Null)
  /\ objects' = objects
  /\ PoolFrame

ClassifyNext == Classify \/ PairClassified \/ ResetClassified

SpecClassify == ClassifyInit /\ [][ClassifyNext]_vars

(***************************************************************************)
(* Trees under a root of every kind: the host root fiber comes from        *)
(* createHostRootFiber, every other fiber from the classifier, called with *)
(* the mode of the fiber that becomes its parent.                          *)
(***************************************************************************)
MaxNested == 2 \* fibers the classifier may add below the root

RootTags == {"LegacyRoot", "BlockingRoot", "ConcurrentRoot"}

ModesInit ==
  /\ flags \in Builds
  /\ \E tag \in RootTags, profiling \in BOOLEAN :
       fiber = createHostRootFiber(<< >>, tag, profiling).h
  /\ current = 1
  /\ workInProgress = Null
  /\ pc = "modes"
  /\ rc = NoChild
  /\ renderExpirationTime = 1
  /\ yielded = FALSE
  /\ resumed = FALSE
  /\ budget = [retries |-> 0, cancels |-> 0, commits |-> 0]
  /\ completed = << >>
  /\ last = NoCall
  /\ base = fiber
  /\ paired = {}
  /\ objects = InitialObjects

\* The reconciliation of a fiber creates a child for an element: the
\* classifier is given the mode of the returning fiber, and the fiber it makes
\* returns to that fiber; an invalid element type is fatal.
NestChild ==
  /\ pc = "modes"
  /\ Len(fiber) < Len(base) + MaxNested
  /\ \E returnFiber \in DOMAIN fiber, type \in ElementTypes :
       LET r == createFiberFromTypeAndProps(fiber, type, Null, 1, Null,
                                            fiber[returnFiber].mode,
                                            renderExpirationTime)
           args == [type |-> type, key |-> Null, owner |-> Null,
                    mode |-> fiber[returnFiber].mode,
                    expirationTime |-> renderExpirationTime]
       IN  /\ fiber' = IF r.threw = "none"
                         THEN [r.h EXCEPT ![r.ret].return = returnFiber]
                         ELSE r.h
           /\ last' = [Call("createFiberFromTypeAndProps", args, 1, r.ret, fiber, Null)
                         EXCEPT !.threw = r.threw, !.message = r.message]
           /\ pc' = IF r.threw = "none" THEN pc ELSE "failed"
  /\ objects' = objects
  /\ UNCHANGED << current, workInProgress, rc, renderExpirationTime, yielded,
                  resumed, budget, completed, base, paired, flags >>

ModesNext == NestChild

SpecModes == ModesInit /\ [][ModesNext]_vars

(***************************************************************************)
(* Properties of the fiber pool.                                           *)
(***************************************************************************)
Fibers == DOMAIN fiber

\* The latest step called createWorkInProgress.
JustPaired == last.op = "createWorkInProgress"

\* ... and its current fiber had no alternate / had one.
JustPairedFresh == JustPaired /\ last.heap[last.arg].alternate = Null
JustPairedReused == JustPaired /\ last.heap[last.arg].alternate # Null

\* C1 - pairing symmetry: in every reachable state, whenever a fiber n has a
\* non-null alternate m, m's alternate is n.
PairingSymmetry ==
  \A n \in Fibers :
    fiber[n].alternate # Null => fiber[fiber[n].alternate].alternate = n

\* A committed tree whose paired child went through resetWorkInProgress.
PairingSymmetryWitness ==
  /\ budget.commits >= 1
  /\ last.op = "resetWorkInProgress"
  /\ fiber[last.ret].alternate # Null
  /\ fiber[fiber[last.ret].alternate].alternate = last.ret

\* C2 - pairing uniqueness: no fiber is the alternate of two distinct fibers,
\* at most two fibers share one instance (one tree position), and
\* createWorkInProgress allocates only for a current fiber without alternate.
PairingUniqueness ==
  /\ \A n, m \in Fibers :
       (n # m /\ fiber[n].alternate # Null) => fiber[n].alternate # fiber[m].alternate
  /\ \A n \in Fibers :
       fiber[n].stateNode # Null =>
         Cardinality({m \in Fibers : fiber[m].stateNode = fiber[n].stateNode}) <= 2
  /\ JustPaired =>
       /\ Len(fiber) <= Len(last.heap) + 1
       /\ Len(fiber) > Len(last.heap) => last.heap[last.arg].alternate = Null

\* After a commit a pass pairs a current fiber that has an alternate, allocates
\* nothing, and the position has exactly its two fibers.
PairingUniquenessWitness ==
  /\ JustPairedReused
  /\ budget.commits >= 1
  /\ last.arg # current
  /\ Len(fiber) = Len(last.heap)
  /\ Cardinality({m \in Fibers : fiber[m].stateNode = fiber[last.arg].stateNode}) = 2

\* C3 - idempotent pairing: a second createWorkInProgress on the same current
\* fiber with no commit in between returns the fiber the first call returned
\* and allocates nothing, whatever props are passed and whatever the pass wrote
\* to that fiber in between.
IdempotentPairing ==
  (JustPaired /\ last.prior # Null) =>
    /\ last.ret = last.prior
    /\ Len(fiber) = Len(last.heap)

\* A second pairing with other props of a fiber the pass had tagged.
IdempotentPairingWitness ==
  /\ JustPaired
  /\ last.prior # Null
  /\ last.ret = last.prior
  /\ last.heap[last.ret].pendingProps # last.props
  /\ last.heap[last.ret].effectTag # NoEffect

\* C9 - first pairing: when current has no alternate, createWorkInProgress
\* returns a newly allocated fiber with current's tag, key, elementType, type
\* and stateNode, the given pendingProps, and the two fibers are each other's
\* alternate.
FirstPairing ==
  JustPairedFresh =>
    LET w == last.ret
        c == last.arg
    IN  /\ w = Len(last.heap) + 1
        /\ Len(fiber) = Len(last.heap) + 1
        /\ fiber[w].tag = last.heap[c].tag
        /\ fiber[w].key = last.heap[c].key
        /\ fiber[w].elementType = last.heap[c].elementType
        /\ fiber[w].type = last.heap[c].type
        /\ fiber[w].stateNode = last.heap[c].stateNode
        /\ fiber[w].pendingProps = last.props
        /\ fiber[w].alternate = c
        /\ fiber[c].alternate = w

\* The first pairing of a committed class component, with new props.
FirstPairingWitness ==
  /\ JustPairedFresh
  /\ fiber[last.arg].tag = "ClassComponent"
  /\ fiber[last.arg].stateNode # Null
  /\ last.props # fiber[last.arg].pendingProps

\* C10 - clean base state: the fiber createWorkInProgress returns, fresh or
\* reused, has the given pendingProps, effectTag NoEffect and no effect-list
\* pointers, whatever an earlier pass left on the reused fiber.
CleanBaseState ==
  JustPaired =>
    /\ fiber[last.ret].pendingProps = last.props
    /\ fiber[last.ret].effectTag = NoEffect
    /\ fiber[last.ret].nextEffect = Null
    /\ fiber[last.ret].firstEffect = Null
    /\ fiber[last.ret].lastEffect = Null

\* A reused fiber on which the earlier pass left a tag and an effect list.
CleanBaseStateWitness ==
  /\ JustPairedReused
  /\ last.heap[last.ret].effectTag # NoEffect
  /\ last.heap[last.ret].firstEffect # Null
  /\ last.heap[last.ret].lastEffect # Null

(***************************************************************************)
(* Properties of the pass: the effect list and the order of completion.    *)
(***************************************************************************)
Finished == pc = "finished"

WipTree == Range(PostOrder(fiber, WipRoot, Len(fiber)))

\* The fibers of the committed tree, as the pass found it.
CurrentTree == Range(PostOrder(base, current, Len(base)))

Changed(S) == {f \in S : fiber[f].effectTag # NoEffect}

IsOneToOne(s) == \A i, j \in DOMAIN s : s[i] = s[j] => i = j

\* C4 - effect-list completeness: once the root completes, every fiber of the
\* work-in-progress tree, and every child the pass deleted, whose effectTag is
\* not NoEffect appears exactly once in the root's final effect list (its
\* firstEffect chain, plus the root itself if it changed), and the chain ends.
EffectListCompleteness ==
  Finished =>
    /\ Len(EffectList(fiber, WipRoot)) <= Len(fiber)
    /\ IsOneToOne(FinalEffects)
    /\ Changed(WipTree) \subseteq Range(FinalEffects)
    /\ \A w \in WipTree : Range(DeletedChildren(fiber, w)) \subseteq Range(FinalEffects)

\* A finished pass after a cancelled one, with changed fibers at two depths
\* and a deleted child.
EffectListCompletenessWitness ==
  /\ Finished
  /\ budget.cancels = 1
  /\ \E w \in WipTree : DeletedChildren(fiber, w) # << >>
  /\ \E w \in Changed(WipTree) :
       /\ fiber[w].return # Null
       /\ fiber[w].return # WipRoot
       /\ fiber[w].return \in Changed(WipTree)

\* C5 - effect-list order: the fibers of the work-in-progress tree stand in
\* the root's final effect list in post-order: the changed descendants of a
\* child before the child, a child and its descendants before those of the
\* next sibling, and all of them before their parent.
EffectListOrder ==
  Finished =>
    SelectSeq(FinalEffects, LAMBDA f : f \in WipTree)
      = SelectSeq(PostOrder(fiber, WipRoot, Len(fiber)),
                  LAMBDA f : fiber[f].effectTag # NoEffect)

\* Two sibling subtrees, each a changed parent with a changed child.
EffectListOrderWitness ==
  /\ Finished
  /\ \E c1, c2 \in Changed(WipTree) :
       /\ fiber[c1].sibling = c2
       /\ fiber[c1].child \in Changed(WipTree)
       /\ fiber[c2].child \in Changed(WipTree)
       /\ Len(FinalEffects) >= 4

\* C6 - completion ordering: in a pass in which no unit is worked on a second
\* time, no fiber completes twice, a fiber completes after all its children
\* and after its earlier siblings, and at the end every fiber of the
\* work-in-progress tree has completed once, in post-order.
CompletionOrdering ==
  budget.retries = 0 =>
    /\ IsOneToOne(completed)
    /\ \A i \in DOMAIN completed :
         /\ \A c \in Range(Children(fiber, completed[i])) :
              \E j \in 1 .. (i - 1) : completed[j] = c
         /\ fiber[completed[i]].sibling # Null =>
              \A j \in 1 .. i : completed[j] # fiber[completed[i]].sibling
    /\ Finished => completed = PostOrder(fiber, WipRoot, Len(fiber))

\* A finished pass over a tree with siblings that both have a child.
CompletionOrderingWitness ==
  /\ Finished
  /\ budget.retries = 0
  /\ Len(completed) = NKeys + 1

InPass == pc # "idle"

\* The fields of a fiber other than alternate.
SameButAlternate(f, g) == f = [g EXCEPT !.alternate = f.alternate]

\* The fields of a fiber other than alternate, effectTag and nextEffect.
SameButAlternateAndEffect(f, g) ==
  f = [g EXCEPT !.alternate = f.alternate,
                !.effectTag = f.effectTag,
                !.nextEffect = f.nextEffect]

\* The latest step called createWorkInProgress or resetWorkInProgress and
\* changed nothing but the fiber it returned and, when it paired current for
\* the first time, current.alternate.
PoolCallFrame ==
  last.op \in {"createWorkInProgress", "resetWorkInProgress"} =>
    \A f \in DOMAIN last.heap :
      f # last.ret =>
        /\ SameButAlternate(fiber[f], last.heap[f])
        /\ fiber[f].alternate # last.heap[f].alternate =>
             /\ last.op = "createWorkInProgress"
             /\ f = last.arg
             /\ last.heap[f].alternate = Null
             /\ fiber[f].alternate = last.ret

\* C8 - cancellation has no visible effect, as stated: at every step of a
\* pass every fiber of the committed tree has all its fields but alternate
\* exactly as they were when the pass started.
CurrentTreeUntouched ==
  InPass =>
    \A f \in CurrentTree : SameButAlternate(fiber[f], base[f])

\* C8 - cancellation has no visible effect, amended: createWorkInProgress and
\* resetWorkInProgress change no fiber but the one they return, except that
\* the first pairing sets current.alternate; at every step of a pass every
\* fiber of the committed tree keeps its links, its memoized fields, its
\* expiration times and its firstEffect and lastEffect, and only a child the
\* pass has deleted differs in effectTag (Deletion) or in nextEffect.
CancellationFrame ==
  /\ PoolCallFrame
  /\ InPass =>
       \A f \in CurrentTree :
         /\ SameButAlternateAndEffect(fiber[f], base[f])
         /\ (\/ fiber[f].effectTag # base[f].effectTag
             \/ fiber[f].nextEffect # base[f].nextEffect) =>
              /\ fiber[f].effectTag = Deletion
              /\ f # current

\* A pass over a committed tree that can be cancelled now, after it paired a
\* committed child for the first time and deleted another.
CancellationFrameWitness ==
  /\ yielded
  /\ budget.retries + budget.cancels < MaxDisruptions
  /\ budget.commits >= 1
  /\ \E f \in CurrentTree : base[f].alternate = Null /\ fiber[f].alternate # Null
  /\ \E f \in CurrentTree : fiber[f].effectTag = Deletion /\ base[f].effectTag # Deletion
(***************************************************************************)
(* The fields createWorkInProgress copies from current.                    *)
(***************************************************************************)
CopiedFields ==
  {"childExpirationTime", "expirationTime", "child", "memoizedProps",
   "memoizedState", "updateQueue"}

\* C11: when createWorkInProgress returns, the returned fiber's
\* childExpirationTime, expirationTime, child, memoizedProps, memoizedState and
\* updateQueue equal those current had when the call was made, in the
\* allocating and in the reusing branch alike.
CopyForward ==
  JustPaired =>
    \A x \in CopiedFields : fiber[last.ret][x] = last.heap[last.arg][x]

\* A reused fiber that carried another memoized state, other memoized props
\* and another child before the call than current did.
CopyForwardWitness ==
  /\ JustPairedReused
  /\ LET stale == last.heap[last.ret]
         c == last.heap[last.arg]
     IN  /\ stale.memoizedState # c.memoizedState
         /\ stale.memoizedProps # c.memoizedProps
         /\ stale.child # c.child
  /\ \A x \in CopiedFields : fiber[last.ret][x] = last.heap[last.arg][x]

(***************************************************************************)
(* Properties of the pool operations applied directly.                     *)
(***************************************************************************)
\* The latest step called createWorkInProgress and it returned a fiber.
PairedDirectly == last.op = "createWorkInProgress" /\ last.threw = "none"

\* The latest step called resetWorkInProgress, on an unpaired fiber / on a
\* paired one.
JustReset == last.op = "resetWorkInProgress"

JustResetUnpaired == JustReset /\ last.heap[last.arg].alternate = Null

JustResetPaired == JustReset /\ last.heap[last.arg].alternate # Null

\* The contexts of the list that starts at item, in order.
RECURSIVE ContextList(_, _, _)
ContextList(o, item, fuel) ==
  IF item = Null \/ fuel = 0
    THEN << >>
    ELSE << o[item].context >> \o ContextList(o, o[item].next, fuel - 1)

\* All that can be read through f.dependencies: the fields of the object, the
\* context list and the content of the responders map.
DependencyStructure(h, o, f) ==
  IF h[f].dependencies = NoDependencies
    THEN << >>
    ELSE LET d == h[f].dependencies[1]
         IN  << [expirationTime |-> d.expirationTime,
                 contexts |-> ContextList(o, d.firstContext, Len(o)),
                 responders |-> IF d.responders = Null
                                  THEN Null
                                  ELSE << o[d.responders].responders >>] >>

MissingPairing ==
  last.op = "createWorkInProgress" =>
    /\ last.threw # "none" <=> last.arg = Null
    /\ last.threw # "none" => fiber = last.heap /\ last.ret = Null
    /\ last.threw = "none" => last.ret \in DOMAIN fiber

\* A call with null that threw and left the heap as it was, after the component
\* had been paired and its work-in-progress fiber written to.
MissingPairingWitness ==
  /\ last.op = "createWorkInProgress"
  /\ last.arg = Null
  /\ last.threw = "TypeError"
  /\ fiber = last.heap
  /\ \E w \in WorkSide : fiber[w].alternate \in CurrentSide /\ fiber[w].effectTag # NoEffect

\* The fields resetWorkInProgress assumes untouched, and the others it leaves.
PreservedFields == {"pendingProps", "index", "key", "ref", "return"}

KeptFields ==
  PreservedFields \cup
    {"tag", "type", "elementType", "stateNode", "mode", "sibling", "alternate"}

\* C14: resetWorkInProgress leaves pendingProps, index, key, ref and return of
\* the fiber as they were, and tag, type, elementType, stateNode, mode, sibling
\* and alternate as well, whatever the deadline, and returns the fiber it was
\* given.
ResetPreserves ==
  JustReset =>
    /\ last.ret = last.arg
    /\ \A x \in KeptFields : fiber[last.arg][x] = last.heap[last.arg][x]

\* A reset of a paired fiber whose sibling is not its alternate's, with a
\* deadline other than the pass's, that changed the fiber.
ResetPreservesWitness ==
  /\ JustResetPaired
  /\ last.props = 2
  /\ last.ret = last.arg
  /\ fiber[last.arg] # last.heap[last.arg]
  /\ fiber[last.arg].sibling # fiber[fiber[last.arg].alternate].sibling
  /\ \A x \in KeptFields : fiber[last.arg][x] = last.heap[last.arg][x]

\* What createWorkInProgress would make of w, called on the heap h with the
\* alternate of w and the pending props of w.
Repaired(h, w) == createWorkInProgress(h, h[w].alternate, h[w].pendingProps).h[w]

FiberFields == DOMAIN FiberNode("HostRoot", Null, Null, NoMode)

\* C15 as stated: resetWorkInProgress leaves a paired fiber w, whatever the first
\* attempt wrote to it, in the state createWorkInProgress(w.alternate,
\* w.pendingProps) would have produced: every field outside pendingProps,
\* index, key, ref and return, effectTag and the effect-list pointers
\* included, has the same value in both.
SecondPassEquivalence ==
  JustResetPaired =>
    \A x \in FiberFields \ PreservedFields :
      fiber[last.arg][x] = Repaired(last.heap, last.arg)[x]

\* C15, amended: the two agree on childExpirationTime, expirationTime, child,
\* memoizedProps, memoizedState, updateQueue, dependencies and the effect-list
\* pointers, and on the fields neither writes; but resetWorkInProgress keeps
\* the Placement bit of w's effect tag where createWorkInProgress gives
\* NoEffect, and leaves w's sibling where createWorkInProgress gives current's.
SecondPassEquivalenceButPlacement ==
  JustResetPaired =>
    /\ \A x \in FiberFields \ (PreservedFields \cup {"effectTag", "sibling"}) :
         fiber[last.arg][x] = Repaired(last.heap, last.arg)[x]
    /\ fiber[last.arg].effectTag = last.heap[last.arg].effectTag \cap Placement
    /\ fiber[last.arg].sibling = last.heap[last.arg].sibling

\* A reset of a paired fiber that the first attempt had tagged Placement and
\* Update, given memoized state other than current's and linked to a sibling
\* that is not current's: the reset kept Placement and the sibling.
SecondPassEquivalenceButPlacementWitness ==
  /\ JustResetPaired
  /\ LET w == last.arg
         before == last.heap[w]
         c == last.heap[before.alternate]
     IN  /\ before.effectTag = Placement \cup Update
         /\ before.memoizedState # c.memoizedState
         /\ before.firstEffect # Null
         /\ before.sibling # c.sibling
         /\ fiber[w].effectTag = Placement
         /\ fiber[w].sibling = before.sibling
         /\ fiber[w].memoizedState = c.memoizedState
         /\ Repaired(last.heap, w).effectTag = NoEffect
         /\ Repaired(last.heap, w).sibling = c.sibling

\* C16: resetWorkInProgress on a fiber without alternate makes child,
\* memoizedProps, memoizedState, updateQueue and dependencies null,
\* childExpirationTime NoWork, and expirationTime the deadline it was given.
ResetUnpaired ==
  JustResetUnpaired =>
    LET f == fiber[last.arg]
    IN  /\ f.child = Null
        /\ f.memoizedProps = Null
        /\ f.memoizedState = Null
        /\ f.updateQueue = Null
        /\ f.dependencies = NoDependencies
        /\ f.childExpirationTime = NoWork
        /\ f.expirationTime = last.props

\* A reset of an unpaired fiber that had been rendered, with a deadline that is
\* neither NoWork nor the expiration time the fiber had.
ResetUnpairedWitness ==
  /\ JustResetUnpaired
  /\ last.props = 2
  /\ last.heap[last.arg].memoizedProps # Null
  /\ last.heap[last.arg].updateQueue # Null
  /\ last.heap[last.arg].dependencies # NoDependencies
  /\ last.heap[last.arg].expirationTime # 2
  /\ fiber[last.arg].dependencies = NoDependencies
  /\ fiber[last.arg].memoizedProps = Null
  /\ fiber[last.arg].expirationTime = 2

\* C17: resetWorkInProgress on a fiber with an alternate makes its
\* childExpirationTime, expirationTime, child, memoizedProps, memoizedState and
\* updateQueue equal to the alternate's and its dependencies a copy of the
\* alternate's (null when those are null), whatever deadline it was given, and
\* leaves the alternate as it was.
ResetPaired ==
  JustResetPaired =>
    LET c == last.heap[last.arg].alternate
    IN  /\ \A x \in CopiedFields : fiber[last.arg][x] = last.heap[c][x]
        /\ fiber[last.arg].dependencies = last.heap[c].dependencies
        /\ fiber[c] = last.heap[c]

\* A reset of a paired fiber whose memoized state and dependencies were not the
\* alternate's, with a deadline that is not the alternate's expiration time.
ResetPairedWitness ==
  /\ JustResetPaired
  /\ LET w == last.arg
         c == last.heap[w].alternate
     IN  /\ last.props # last.heap[c].expirationTime
         /\ last.heap[w].memoizedState # last.heap[c].memoizedState
         /\ last.heap[c].dependencies # NoDependencies
         /\ last.heap[w].dependencies # last.heap[c].dependencies
         /\ fiber[w].dependencies = last.heap[c].dependencies
         /\ fiber[w].expirationTime = last.heap[c].expirationTime
         /\ fiber[c] = last.heap[c]

(***************************************************************************)
(* Properties of the classifier.                                           *)
(***************************************************************************)
JustClassified == last.op = "createFiberFromTypeAndProps"

Classified == JustClassified /\ last.threw = "none"

Rejected == JustClassified /\ last.threw = "Element type is invalid"

\* C18: a string type gives HostComponent, a function whose prototype has
\* isReactComponent gives ClassComponent, any other function gives
\* IndeterminateComponent; the fiber's elementType is the type given, and its
\* key, pendingProps and expirationTime are the arguments.
ClassifierFunctionsAndStrings ==
  JustClassified /\ last.arg.type.kind \in {"string", "function"} =>
    /\ Classified
    /\ LET f == fiber[last.ret]
           type == last.arg.type
       IN  /\ f.tag = IF type.kind = "string" THEN "HostComponent"
                      ELSE IF type.isReactComponent THEN "ClassComponent"
                      ELSE "IndeterminateComponent"
           /\ f.elementType = type
           /\ f.key = last.arg.key
           /\ f.pendingProps = last.props
           /\ f.expirationTime = last.arg.expirationTime

\* A function without isReactComponent classified with a key, the second props
\* and the second deadline.
ClassifierFunctionsAndStringsWitness ==
  /\ Classified
  /\ last.arg.type = FunctionType("Fn")
  /\ last.arg.key = 1 /\ last.props = 2 /\ last.arg.expirationTime = 2
  /\ fiber[last.ret].tag = "IndeterminateComponent"
  /\ fiber[last.ret].elementType = FunctionType("Fn")
  /\ fiber[last.ret].key = 1
  /\ fiber[last.ret].expirationTime = 2

\* The tag each built-in type is to get.
BuiltInTag(type) ==
  CASE type = REACT_FRAGMENT_TYPE -> "Fragment"
    [] type = REACT_STRICT_MODE_TYPE -> "Mode"
    [] type = REACT_CONCURRENT_MODE_TYPE -> "Mode"
    [] type = REACT_PROFILER_TYPE -> "Profiler"
    [] type = REACT_SUSPENSE_TYPE -> "SuspenseComponent"
    [] type = REACT_SUSPENSE_LIST_TYPE -> "SuspenseListComponent"
    [] type = ObjectType(REACT_PROVIDER_TYPE) -> "ContextProvider"
    [] type = ObjectType(REACT_CONTEXT_TYPE) -> "ContextConsumer"
    [] type = ObjectType(REACT_FORWARD_REF_TYPE) -> "ForwardRef"
    [] type = ObjectType(REACT_MEMO_TYPE) -> "MemoComponent"
    [] type = ObjectType(REACT_LAZY_TYPE) -> "LazyComponent"
    [] type = ObjectType(REACT_FUNDAMENTAL_TYPE) -> "FundamentalComponent"
    [] type = ObjectType(REACT_SCOPE_TYPE) -> "ScopeComponent"
    [] OTHER -> "none"

BuiltIn(type) == BuiltInTag(type) # "none"

\* The built-in types a build does not dispatch: the fundamental type without
\* enableFundamentalAPI, the scope type without enableScopeAPI.
Disabled(type) ==
  \/ type = ObjectType(REACT_FUNDAMENTAL_TYPE) /\ ~flags.enableFundamentalAPI
  \/ type = ObjectType(REACT_SCOPE_TYPE) /\ ~flags.enableScopeAPI

\* C19 as stated: every built-in type gets the fiber of its kind (fragment
\* Fragment, strict-mode and concurrent-mode Mode, profiler Profiler, suspense
\* SuspenseComponent, suspense-list SuspenseListComponent, provider
\* ContextProvider, context ContextConsumer, forward-ref ForwardRef, memo
\* MemoComponent, lazy LazyComponent, fundamental FundamentalComponent, scope
\* ScopeComponent), and none of them is ever rejected or given another tag.
ClassifierBuiltIns ==
  JustClassified /\ BuiltIn(last.arg.type) =>
    Classified /\ fiber[last.ret].tag = BuiltInTag(last.arg.type)

\* C19, amended: the same, except that the fundamental type is dispatched only
\* in a build with enableFundamentalAPI and the scope type only in a build
\* with enableScopeAPI; without the flag the type is rejected as an invalid
\* element type.
ClassifierBuiltInsEnabled ==
  JustClassified /\ BuiltIn(last.arg.type) =>
    IF Disabled(last.arg.type)
      THEN Rejected
      ELSE Classified /\ fiber[last.ret].tag = BuiltInTag(last.arg.type)

\* The scope type classified in a build with enableScopeAPI and without
\* enableFundamentalAPI.
ClassifierBuiltInsEnabledWitness ==
  /\ Classified
  /\ last.arg.type = ObjectType(REACT_SCOPE_TYPE)
  /\ flags.enableScopeAPI /\ ~flags.enableFundamentalAPI
  /\ fiber[last.ret].tag = "ScopeComponent"

\* The types of rules 1 to 3: strings, functions and the built-in types.
Ruled(type) == type.kind \in {"string", "function"} \/ BuiltIn(type)

\* C20 as stated: the classifier fails with 'Element type is invalid' for every
\* type that is neither a string, nor a function, nor a built-in type of
\* rule 3; it never fails for one that is; and when it fails it has created no
\* fiber and returns none.
InvalidElementType ==
  JustClassified =>
    /\ Rejected <=> ~Ruled(last.arg.type)
    /\ Rejected => fiber = last.heap /\ last.ret = Null
    /\ Rejected \/ Classified

\* C20, amended: the classifier fails with 'Element type is invalid' for every
\* type that is neither a string, nor a function, nor a built-in type of
\* rule 3 that the build dispatches, nor the block type, and for no other; and
\* when it fails it has created no fiber and returns none.
InvalidElementTypeEnabled ==
  JustClassified =>
    /\ Rejected <=>
         /\ ~Ruled(last.arg.type) \/ Disabled(last.arg.type)
         /\ last.arg.type # ObjectType(REACT_BLOCK_TYPE)
    /\ Rejected => fiber = last.heap /\ last.ret = Null
    /\ Rejected \/ Classified

\* An empty object rejected in a DEV build, under an owner: no fiber was created.
InvalidElementTypeEnabledWitness ==
  /\ Rejected
  /\ last.arg.type = EmptyObject
  /\ flags.dev
  /\ last.arg.owner # Null
  /\ fiber = last.heap
  /\ last.ret = Null

\* The parts of the message of a rejected classification: the hint about a
\* forgotten export, and the line that names the owner.
ExportHint == last.message[2]

OwnerLine == last.message[3]

HintedType(type) == type.kind = "undefined" \/ (type.kind = "object" /\ type.empty)

OwnerHasName ==
  last.arg.owner # Null /\ last.heap[last.arg.owner].type.name # ""

\* C21 as stated: the message of a rejected classification carries the hint
\* about a forgotten export exactly when the type is undefined or an object
\* with no keys, and the line "Check the render method of" the owner exactly
\* when the owner has a component name; so for undefined under an owner named
\* App it carries both.
InvalidElementTypeDiagnostics ==
  Rejected =>
    /\ ExportHint <=> HintedType(last.arg.type)
    /\ OwnerLine # "" <=> OwnerHasName
    /\ OwnerHasName => OwnerLine = last.heap[last.arg.owner].type.name

\* C21, amended: in a DEV build the message carries the hint exactly when the
\* type is undefined or an object with no keys, and names the owner exactly
\* when the owner has a component name; in a build without __DEV__ it carries
\* neither.
InvalidElementTypeDiagnosticsInDev ==
  Rejected =>
    IF flags.dev
      THEN /\ ExportHint <=> HintedType(last.arg.type)
           /\ OwnerLine # "" <=> OwnerHasName
           /\ OwnerHasName => OwnerLine = last.heap[last.arg.owner].type.name
      ELSE ~ExportHint /\ OwnerLine = ""

\* Undefined rejected in a DEV build under the owner named App: the message has
\* the hint and names App.
InvalidElementTypeDiagnosticsInDevWitness ==
  /\ Rejected
  /\ flags.dev
  /\ last.arg.type = UndefinedType
  /\ OwnerHasName
  /\ ExportHint
  /\ OwnerLine = "App"

\* The outcome of a call of the classifier: the tag of the fiber it returned,
\* or that it failed.
OutcomeTag(r) == IF r.threw # "none" THEN "failed" ELSE r.h[r.ret].tag

\* C22: a call of createFiberFromTypeAndProps with the type of the latest call
\* gives a fiber of the same tag, or fails as the latest call did, whatever
\* its key, props, owner, mode and deadline, on the heap of the latest call
\* and on the heap that call left.
ClassifierDeterminism ==
  JustClassified =>
    \A h \in {last.heap, fiber}, key \in {Null, 1}, pendingProps \in Props,
       owner \in Owners \cup {Null}, mode \in {NoMode, BlockingMode},
       expirationTime \in PoolDeadlines :
      OutcomeTag(createFiberFromTypeAndProps(h, last.arg.type, key, pendingProps,
                                             owner, mode, expirationTime))
        = IF Classified THEN fiber[last.ret].tag ELSE "failed"

\* A keyed fragment classified in blocking mode under an owner; the same type
\* without key, owner and mode, on the heap with the new fiber, gives a
\* Fragment again.
ClassifierDeterminismWitness ==
  /\ Classified
  /\ last.arg.type = REACT_FRAGMENT_TYPE
  /\ last.arg.key = 1 /\ last.arg.owner # Null /\ last.arg.mode = BlockingMode
  /\ fiber[last.ret].tag = "Fragment"
  /\ Len(fiber) > Len(last.heap)
  /\ OutcomeTag(createFiberFromTypeAndProps(fiber, REACT_FRAGMENT_TYPE, Null, 1, Null,
                                            NoMode, 1)) = "Fragment"

\* C23: the classifier changes no fiber that existed (the owner included), and
\* the fiber it returns is unlinked and clean: return, child, sibling and
\* alternate are null, index is 0, effectTag is NoEffect, the effect-list
\* pointers, memoizedProps, memoizedState and updateQueue are null, and
\* expirationTime is the deadline given.
ClassifierPurity ==
  JustClassified =>
    /\ \A f \in DOMAIN last.heap : fiber[f] = last.heap[f]
    /\ Classified =>
         LET f == fiber[last.ret]
         IN  /\ last.ret \notin DOMAIN last.heap
             /\ DOMAIN fiber = DOMAIN last.heap \cup {last.ret}
             /\ f.return = Null /\ f.child = Null /\ f.sibling = Null
             /\ f.alternate = Null
             /\ f.index = 0
             /\ f.effectTag = NoEffect
             /\ f.nextEffect = Null /\ f.firstEffect = Null /\ f.lastEffect = Null
             /\ f.memoizedProps = Null /\ f.memoizedState = Null
             /\ f.updateQueue = Null
             /\ f.expirationTime = last.arg.expirationTime

\* A profiler classified under an owner with the second deadline: the owner is
\* as it was, and the new fiber has the deadline and no links.
ClassifierPurityWitness ==
  /\ Classified
  /\ last.arg.type = REACT_PROFILER_TYPE
  /\ last.arg.owner # Null
  /\ last.arg.expirationTime = 2
  /\ fiber[last.arg.owner] = last.heap[last.arg.owner]
  /\ fiber[last.ret].expirationTime = 2
  /\ fiber[last.ret].return = Null
  /\ fiber[last.ret].alternate = Null

(***************************************************************************)
(* The shape of the two trees.                                             *)
(***************************************************************************)
\* The roots of the committed and of the work-in-progress tree, the fibers
\* reached from a root through child and sibling links, and the fibers reached
\* from either.
Roots == {current} \cup (IF WipRoot = Null THEN {} ELSE {WipRoot})

TreeOf(root) == PostOrder(fiber, root, Len(fiber))

Live == UNION {Range(TreeOf(root)) : root \in Roots}

\* The fibers among S that have f in their list of children.
ParentsAmong(S, f) == {p \in S : f \in Range(Children(fiber, p))}

Acyclic ==
  \A f \in Live :
    f \notin Range(ForestPostOrder(fiber, Children(fiber, f), Len(fiber)))

\* C24 as stated: in every reachable state the child and sibling links form a
\* proper forest: there is no cycle, and every fiber other than the roots is
\* among the children of exactly one fiber; also right after
\* createWorkInProgress has set child and sibling of the paired fiber from
\* current.
ForestInvariant ==
  /\ Acyclic
  /\ \A f \in Live \ Roots : Cardinality(ParentsAmong(Live, f)) = 1

\* C24, amended: there is no cycle, and within the committed tree and within
\* the work-in-progress tree every fiber other than the root is among the
\* children of exactly one fiber of that tree; but the trees share fibers: a
\* fiber can be among the children of a fiber and of that fiber's alternate,
\* as it is right after createWorkInProgress has given the paired fiber the
\* child of current.
TreeInvariant ==
  LET kids == [p \in DOMAIN fiber |-> Range(Children(fiber, p))]
      trees == [root \in Roots |-> TreeOf(root)]
      live == UNION {Range(trees[root]) : root \in Roots}
  IN  /\ \A root \in Roots :
           \* a traversal that meets no fiber twice: no cycle, no second parent
           /\ IsOneToOne(trees[root])
           /\ \A f \in Range(trees[root]) \ {root} :
                Cardinality({p \in Range(trees[root]) : f \in kids[p]}) = 1
      /\ \A p, q \in live :
           p < q /\ kids[p] \cap kids[q] # {} =>
             fiber[p].alternate = q /\ fiber[q].alternate = p

\* Right after createWorkInProgress reused a fiber for a current fiber that has
\* a child: the child is the child of both.
TreeInvariantWitness ==
  /\ JustPairedReused
  /\ last.arg # current
  /\ fiber[last.arg].child # Null
  /\ fiber[last.ret].child = fiber[last.arg].child
  /\ last.heap[last.ret].child # fiber[last.arg].child
  /\ {last.arg, last.ret} \subseteq ParentsAmong(DOMAIN fiber, fiber[last.arg].child)

(***************************************************************************)
(* The type and the element type of the fibers the classifier makes.       *)
(***************************************************************************)
\* C25 as stated: the type of every fiber the classifier and its constructors
\* make is its elementType, unless the fiber is a LazyComponent, whose type is
\* null; this is so for a fiber of every kind, suspense lists included, and
\* stays so through createWorkInProgress and resetWorkInProgress.
TypeDivergenceOnlyLazy ==
  \A f \in ClassifiedFibers :
    IF fiber[f].tag = "LazyComponent"
      THEN fiber[f].type = NullType
      ELSE fiber[f].type = fiber[f].elementType

\* C25, amended: as above, but outside a development build the type of a
\* SuspenseListComponent is null as well, while its elementType is the
\* suspense list symbol.
TypeDivergenceLazyOrSuspenseList ==
  \A f \in ClassifiedFibers :
    IF fiber[f].tag = "LazyComponent"
      THEN fiber[f].type = NullType /\ fiber[f].elementType.typeofTag = REACT_LAZY_TYPE
    ELSE IF fiber[f].tag = "SuspenseListComponent" /\ ~flags.dev
      THEN fiber[f].type = NullType /\ fiber[f].elementType = REACT_SUSPENSE_LIST_TYPE
    ELSE fiber[f].type = fiber[f].elementType

\* A suspense list made outside a development build was given an alternate,
\* and the alternate has just been reset.
TypeDivergenceLazyOrSuspenseListWitness ==
  /\ last.op = "resetWorkInProgress"
  /\ ~flags.dev
  /\ last.arg = Len(base) + 2
  /\ fiber[last.arg].alternate = Len(base) + 1
  /\ fiber[last.arg].tag = "SuspenseListComponent"
  /\ fiber[last.arg].elementType = REACT_SUSPENSE_LIST_TYPE

(***************************************************************************)
(* The mode of a fiber.                                                    *)
(***************************************************************************)
\* The bits an element type adds to the mode its fiber inherits.
AddedAtCreation(type) ==
  IF type = REACT_STRICT_MODE_TYPE THEN {"StrictMode"}
  ELSE IF type = REACT_CONCURRENT_MODE_TYPE
    THEN {"ConcurrentMode", "BlockingMode", "StrictMode"}
  ELSE IF type = REACT_PROFILER_TYPE THEN {"ProfileMode"}
  ELSE {}

\* The latest step called createWorkInProgress or resetWorkInProgress.
JustPooled == last.op \in {"createWorkInProgress", "resetWorkInProgress"}

\* C26: the mode of a fiber the classifier makes is the mode it inherits plus
\* what its type adds (StrictMode for strict mode; ConcurrentMode, BlockingMode
\* and StrictMode for concurrent mode; ProfileMode for a profiler);
\* createWorkInProgress, on either branch, and resetWorkInProgress change the
\* mode of no fiber, and two paired fibers have the same mode.
ModeInheritance ==
  /\ Classified =>
       fiber[last.ret].mode = last.arg.mode \cup AddedAtCreation(last.arg.type)
  /\ JustPooled => \A f \in DOMAIN last.heap : fiber[f].mode = last.heap[f].mode
  /\ \A f \in DOMAIN fiber :
       fiber[f].alternate # Null => fiber[fiber[f].alternate].mode = fiber[f].mode

\* A profiler made under blocking mode has been given an alternate, and
\* createWorkInProgress has just reused it.
ModeInheritanceWitness ==
  /\ last.op = "createWorkInProgress"
  /\ last.arg \in ClassifiedFibers
  /\ last.heap[last.arg].alternate = last.ret
  /\ fiber[last.ret].tag = "Profiler"
  /\ fiber[last.ret].mode = BlockingMode \cup ProfileMode

(***************************************************************************)
(* The effect list of a fiber at the moment it completes.                  *)
(***************************************************************************)
\* The pass stands at the completion of workInProgress: its children, if it
\* has any, have all completed.
Completing == pc = "complete"

\* The fibers of the work-in-progress tree below w, in order of completion.
ProperDescendants(w) == ForestPostOrder(fiber, Children(fiber, w), Len(fiber))

\* C27 as stated: when a fiber completes, its list of effects is the sequence
\* of its proper descendants with an effectTag other than NoEffect, in the
\* order in which they completed; the fiber itself is not in it, nor is any
\* fiber with NoEffect; an unchanged fiber hands its list to its parent as is.
PerNodeEffectList ==
  Completing =>
    LET w == workInProgress
    IN  /\ EffectList(fiber, w)
             = SelectSeq(ProperDescendants(w), LAMBDA f : fiber[f].effectTag # NoEffect)
        /\ w \notin Range(EffectList(fiber, w))
        /\ \A f \in Range(EffectList(fiber, w)) : fiber[f].effectTag # NoEffect

\* C27, amended: the list holds, besides the changed proper descendants in
\* the order of their completion, the children that the fiber and its
\* descendants deleted, those of a fiber before the effects of its
\* children; its first and last effect are the ends of that sequence.
PerNodeEffectListWithDeletions ==
  Completing =>
    LET w == workInProgress
        list == EffectList(fiber, w)
    IN  /\ list = DeletedChildren(fiber, w)
                    \o ForestCommitOrder(fiber, Children(fiber, w), Len(fiber))
        /\ SelectSeq(list, LAMBDA f : f \in Range(ProperDescendants(w)))
             = SelectSeq(ProperDescendants(w), LAMBDA f : fiber[f].effectTag # NoEffect)
        /\ w \notin Range(list)
        /\ \A f \in Range(list) : fiber[f].effectTag # NoEffect
        /\ fiber[w].lastEffect = IF list = << >> THEN Null ELSE list[Len(list)]

\* A fiber completes with a list that holds a deleted child and a changed
\* descendant, after an unchanged child handed up a list of its own.
PerNodeEffectListWithDeletionsWitness ==
  /\ Completing
  /\ \E d \in Range(EffectList(fiber, workInProgress)) :
       d \notin Range(ProperDescendants(workInProgress))
  /\ \E c \in Range(Children(fiber, workInProgress)) :
       /\ fiber[c].effectTag = NoEffect
       /\ EffectList(fiber, c) # << >>
       /\ Range(EffectList(fiber, c)) \subseteq Range(EffectList(fiber, workInProgress))

(***************************************************************************)
(* A pass that starts over after a discarded one.                          *)
(***************************************************************************)
\* The fields a pass writes on a work-in-progress fiber, and those
\* createWorkInProgress copies from current.
PassFields ==
  {"pendingProps", "effectTag", "nextEffect", "firstEffect", "lastEffect", "child",
   "sibling", "index", "ref", "memoizedProps", "memoizedState", "updateQueue",
   "dependencies", "expirationTime", "childExpirationTime"}

\* The heap h in which no pass has written to w: its pass fields are as the
\* constructor left them.
Unwritten(h, w) ==
  LET made == FiberNode(h[w].tag, Null, h[w].key, h[w].mode)
  IN  [h EXCEPT ![w] = [x \in FiberFields |-> IF x \in PassFields THEN made[x] ELSE @[x]]]

\* The fiber createWorkInProgress has just reused was paired with its current
\* by a pass that was discarded since the last commit.
Restarted ==
  /\ JustPairedReused
  /\ budget.cancels >= 1
  /\ last.prior = last.ret

\* C28: when a pass is discarded and the next one reuses a fiber the discarded
\* pass worked on, createWorkInProgress returns that fiber with every field as
\* it would be had no pass written to the fiber: nothing written to
\* pendingProps, effectTag, the effect-list pointers, child, sibling, index,
\* ref, memoizedProps, memoizedState, updateQueue, dependencies or the
\* expiration times survives.
RestartFromCommitted ==
  Restarted =>
    LET clean == createWorkInProgress(Unwritten(last.heap, last.ret), last.arg, last.props)
    IN  /\ clean.ret = last.ret
        /\ \A x \in FiberFields : fiber[last.ret][x] = clean.h[last.ret][x]

\* A restarted pass reuses a fiber below the root on which the discarded pass
\* left a tag, a list of effects and props of its own.
RestartFromCommittedWitness ==
  /\ Restarted
  /\ last.arg # current
  /\ last.heap[last.ret].effectTag # NoEffect
  /\ last.heap[last.ret].pendingProps # last.props
  /\ \E x \in PassFields \ {"effectTag", "pendingProps"} :
       last.heap[last.ret][x] # fiber[last.ret][x]

(***************************************************************************)
(* The effect tag after resetWorkInProgress.                               *)
(***************************************************************************)
\* C29: after resetWorkInProgress the effectTag of the fiber is what it was,
\* masked with Placement: NoEffect or Placement, Placement only if the fiber
\* had it, and no Update or Deletion or other bit; its nextEffect, firstEffect
\* and lastEffect are null.
ResetKeepsOnlyPlacement ==
  JustReset =>
    LET before == last.heap[last.arg].effectTag
        w == fiber[last.arg]
    IN  /\ w.effectTag = before \cap Placement
        /\ w.effectTag \in {NoEffect, Placement}
        /\ w.effectTag = Placement <=> Placement \subseteq before
        /\ w.effectTag \cap (Update \cup Deletion) = {}
        /\ w.nextEffect = Null /\ w.firstEffect = Null /\ w.lastEffect = Null

\* A fiber tagged Placement and Update, with a list of effects, is reset and
\* keeps Placement alone.
ResetKeepsOnlyPlacementWitness ==
  /\ JustReset
  /\ last.heap[last.arg].effectTag = Placement \cup Update
  /\ last.heap[last.arg].firstEffect # Null
  /\ last.heap[last.arg].nextEffect # Null
  /\ fiber[last.arg].effectTag = Placement

(***************************************************************************)
(* Deleted children in the final list of effects.                          *)
(***************************************************************************)
\* The places of x in the sequence s.
Places(s, x) == {i \in DOMAIN s : s[i] = x}

\* x stands in s, and before every place of y.
Precedes(s, x, y) ==
  Places(s, x) # {} /\ \A i \in Places(s, x), j \in Places(s, y) : i < j

\* The fibers of the work-in-progress tree that completed before w was
\* reconciled: those before w in post-order that are not below w.
CompletedBefore(w) ==
  LET order == PostOrder(fiber, WipRoot, Len(fiber))
  IN  {f \in Range(order) :
         /\ Precedes(order, f, w)
         /\ f \notin Range(PostOrder(fiber, w, Len(fiber)))}

\* C30: a child that the reconciliation of its parent tagged Deletion is in
\* the parent's list of effects when the parent completes, and stands in the
\* final list of the root once, after the effects of all that completed
\* before the parent was reconciled and before the entry of the parent itself.
DeletedChildrenInEffectList ==
  /\ Completing =>
       \A d \in Range(DeletedChildren(fiber, workInProgress)) :
         /\ fiber[d].effectTag = Deletion
         /\ Cardinality(Places(EffectList(fiber, workInProgress), d)) = 1
  /\ Finished =>
       \A w \in WipTree : \A d \in Range(DeletedChildren(fiber, w)) :
         /\ fiber[d].effectTag = Deletion
         /\ Cardinality(Places(FinalEffects, d)) = 1
         /\ \A f \in Changed(CompletedBefore(w)) : Precedes(FinalEffects, f, d)
         /\ w \in Changed(WipTree) => Precedes(FinalEffects, d, w)

\* A finished pass in which a changed fiber completed, then its sibling
\* deleted a child and changed itself.
DeletedChildrenInEffectListWitness ==
  /\ Finished
  /\ \E w \in Changed(WipTree) \ {WipRoot} :
       /\ DeletedChildren(fiber, w) # << >>
       /\ Changed(CompletedBefore(w)) # {}
       /\ Len(FinalEffects) >= 3

(***************************************************************************)
(* The fields that place a fiber under its parent.                         *)
(***************************************************************************)
ProvisionalFields == {"sibling", "index", "ref"}

\* C31: createWorkInProgress writes the return link of neither fiber: it is
\* null on a fiber the call allocated and as it was on a reused one, and that
\* of current is as it was; sibling, index and ref of the returned fiber are
\* those of current, until the parent's reconciliation of its children
\* replaces them.
ParentRelativeFields ==
  JustPaired =>
    /\ fiber[last.arg].return = last.heap[last.arg].return
    /\ JustPairedFresh => fiber[last.ret].return = Null
    /\ JustPairedReused => fiber[last.ret].return = last.heap[last.ret].return
    /\ \A x \in ProvisionalFields : fiber[last.ret][x] = last.heap[last.arg][x]

\* A reused fiber that has a parent and whose sibling was not that of current,
\* for a current fiber that has a parent and a sibling.
ParentRelativeFieldsWitness ==
  /\ JustPairedReused
  /\ last.heap[last.ret].return # Null
  /\ last.heap[last.arg].return # Null
  /\ last.heap[last.arg].return # last.heap[last.ret].return
  /\ last.heap[last.arg].sibling # Null
  /\ last.heap[last.ret].sibling # last.heap[last.arg].sibling

(***************************************************************************)
(* The nesting of the mode bits.                                           *)
(***************************************************************************)
Nested(mode) ==
  /\ ConcurrentMode \subseteq mode => BlockingMode \subseteq mode
  /\ BlockingMode \subseteq mode => StrictMode \subseteq mode

\* C32: in a tree whose root comes from createHostRootFiber and whose other
\* fibers the classifier made with the mode of their parent, the mode of
\* every fiber has BlockingMode if it has ConcurrentMode, and StrictMode if it
\* has BlockingMode.
ModeNesting == \A f \in DOMAIN fiber : Nested(fiber[f].mode)

\* Under a legacy root, whose mode is NoMode, a concurrent-mode fiber has a
\* host component below it, which carries all three bits.
ModeNestingWitness ==
  /\ fiber[1].mode = NoMode
  /\ \E f \in DOMAIN fiber :
       /\ fiber[f].tag = "HostComponent"
       /\ fiber[f].return # Null
       /\ fiber[fiber[f].return].tag = "Mode"
       /\ fiber[fiber[f].return].return = 1
       /\ fiber[f].mode = ConcurrentMode \cup BlockingMode \cup StrictMode

=============================================================================
